---- MODULE Spec2Model ----
(***************************************************************************)
(* Verification model of MuLyCue's setlist scheduler                       *)
(* (src/backend/core/queue_manager.py) together with the event sink it     *)
(* broadcasts to (src/backend/core/websocket_manager.py).                  *)
(*                                                                         *)
(* The scheduler runs on one asyncio event loop.  A coroutine runs without *)
(* interruption until it really suspends, so every action below is the     *)
(* code between two suspension points.  Time is counted in ticks of 0.1 s  *)
(* (the monitor's poll interval).                                          *)
(*                                                                         *)
(* The monitor tasks are kept by what the scheduler can do to them: the    *)
(* one task auto_advance_task refers to, and the tasks the event loop      *)
(* still runs although auto_advance_task no longer refers to them.         *)
(***************************************************************************)
EXTENDS Integers, Sequences, FiniteSets, Bags, TLC

\* ------------------------------------------------------------------ bounds
MaxSongs == 2          \* longest setlist that is loaded
MaxGap == 2            \* largest gap_seconds that is loaded
MaxTasks == 2          \* monitor tasks that may be alive at the same time
MaxConns == 2          \* websocket clients that may connect
MaxOvershoot == 1      \* next_song calls made once the setlist has finished
MaxEdited == 3         \* longest song list of the Setlist that is edited
MaxTime == 2           \* latest time, in seconds, in a document and of a position
MaxItems == 3          \* sections plus entries of a document
MaxCallbacks == 2      \* position callbacks registered with the AudioEngine
MaxSemitones == 12     \* largest number of semitones of a transposition
MaxChain == 2          \* transpositions made in a row on a chord
MaxCalls == 3          \* calls made in a row to render and parse chords
MaxSuffix == 2         \* characters of the suffix of a chord that is rendered
MaxText == 4           \* characters of a chord string that is parsed
MaxVariants == 1       \* times a chord string is written again in another case
MaxViews == 2          \* Song objects made from one document
MaxSections == 2       \* sections of a document
MaxEntries == 1        \* entries of a section of a document that is validated
MaxBeatTime == 5       \* latest position, in seconds, of an update that counts beats
MaxCasts == 2          \* broadcast() calls made while connections come and go

\* ------------------------------------------------------- program constants
TicksPerSecond == 10   \* asyncio.sleep(0.1) is one tick
EndThreshold == 5      \* 0.5 s before the end of the song, in ticks
None == 0              \* Python's None for songs
IndexError == -1       \* a list access outside the list

VARIABLES
    setlist,             \* QueueManager.setlist
    current_index,       \* QueueManager.current_index
    is_playing,          \* QueueManager.is_playing
    auto_advance_task,   \* QueueManager.auto_advance_task: the task it refers to
    shuffle_order,       \* QueueManager.shuffle_order
    orphans,             \* live monitor tasks auto_advance_task does not refer to
    active_connections,  \* WebSocketManager.active_connections
    sink,                \* the message the last operation broadcast, if any
    last,                \* the last operation that ran
    quiet,               \* "load" / "stop" while no command followed that one
    editing,             \* a Setlist instance that is being edited
    edit,                \* the last operation on that instance, and its result
    sync,                \* the fields of the SyncEngine, its Song among them
    sync_out,            \* the last call on the engine or its song, and its effects
    run,                 \* the updates since positions last stopped increasing
    audio,               \* the fields of the AudioEngine and its tracking thread
    tick,                \* the callbacks the tracking thread called in its tick
    chords,              \* the Chord objects made so far, oldest first
    texts,               \* the chord strings given or made so far, oldest first
    chord_log,           \* the calls on chords and chord strings, oldest first
    lists,               \* the section lists: the document's, then each Song's
    views,               \* the Song objects made from the document, oldest first
    view_out,            \* the last call on a Song, and whether it raised
    mlc,                 \* the document given to MLCFormat, in memory and in its file
    mlc_out,             \* the last call on MLCFormat with the document, and its outcome
    casts,               \* the broadcast() calls made, each with its place in its loop
    gone                 \* the websockets that were unregistered

\* The state of the scheduler and of the event sink
queue_vars ==
    <<setlist, current_index, is_playing, auto_advance_task, shuffle_order,
      orphans, active_connections, sink, last, quiet>>

\* The state of the Setlist instance that is edited
edit_vars == <<editing, edit>>

\* The state of the SyncEngine and its Song
sync_vars == <<sync, sync_out, run>>

\* The state of the AudioEngine
audio_vars == <<audio, tick>>

\* The Chord objects and the chord strings
chord_vars == <<chords, texts, chord_log>>

\* The Songs made from one document
view_vars == <<lists, views, view_out>>

\* The document that is validated
mlc_vars == <<mlc, mlc_out>>

\* The broadcasts in flight over the registered connections
cast_vars == <<casts, gone>>

vars ==
    <<queue_vars, edit_vars, sync_vars, audio_vars, chord_vars, view_vars,
      mlc_vars, cast_vars>>

\* What the operations of the scheduler and of the sink leave alone
outside_queue ==
    <<edit_vars, sync_vars, audio_vars, chord_vars, view_vars, mlc_vars,
      cast_vars>>

\* What the operations on the edited Setlist leave alone
outside_edit ==
    <<queue_vars, sync_vars, audio_vars, chord_vars, view_vars, mlc_vars,
      cast_vars>>

\* What the operations on the SyncEngine and its Song leave alone
outside_sync ==
    <<queue_vars, edit_vars, audio_vars, chord_vars, view_vars, mlc_vars,
      cast_vars>>

\* What the operations of the AudioEngine leave alone
outside_audio ==
    <<queue_vars, edit_vars, sync_vars, chord_vars, view_vars, mlc_vars,
      cast_vars>>

\* What the operations on the Chord objects and the chord strings leave alone
outside_chord ==
    <<queue_vars, edit_vars, sync_vars, audio_vars, view_vars, mlc_vars,
      cast_vars>>

\* What the operations on the Songs made from one document leave alone
outside_view ==
    <<queue_vars, edit_vars, sync_vars, audio_vars, chord_vars, mlc_vars,
      cast_vars>>

\* What the operations on the document that is validated leave alone
outside_mlc ==
    <<queue_vars, edit_vars, sync_vars, audio_vars, chord_vars, view_vars,
      cast_vars>>

\* What the broadcasts and the changes of the connection list leave alone
outside_cast ==
    <<setlist, current_index, is_playing, auto_advance_task, shuffle_order,
      orphans, sink, last, quiet, edit_vars, sync_vars, audio_vars,
      chord_vars, view_vars, mlc_vars>>

\* ----------------------------------------------------------------- values
Range(s) == {s[i] : i \in 1..Len(s)}

ConnIds == 1..MaxConns

\* SetlistSong: a song is known by its id; a setlist of n songs holds 1..n.
SongList(n) == [i \in 1..n |-> i]

NoSetlist ==
    [loaded |-> FALSE, songs |-> <<>>, auto_advance |-> TRUE, gap_seconds |-> 0,
     loop |-> FALSE, shuffle |-> FALSE, countdown |-> TRUE]

SetlistsOf(lengths, auto_advances, gaps, loops, shuffles, countdowns) ==
    [loaded : {TRUE}, songs : {SongList(n) : n \in lengths},
     auto_advance : auto_advances, gap_seconds : gaps,
     loop : loops, shuffle : shuffles, countdown : countdowns]

\* The setlists that are loaded: setlists with a monitor, with no gap
\* and with the largest one, with and without countdown,
\* setlists without songs or without a monitor, and shuffled setlists (of two
\* songs or more, shorter ones have one order) with monitor and countdown.
Setlists ==
    SetlistsOf(1..MaxSongs, {TRUE}, {0, MaxGap}, BOOLEAN, {FALSE}, BOOLEAN)
    \cup SetlistsOf(0..MaxSongs, BOOLEAN, {0}, BOOLEAN, {FALSE}, {FALSE})
    \cup SetlistsOf(2..MaxSongs, {TRUE}, {MaxGap}, BOOLEAN, {TRUE}, {TRUE})

\* The setlists that are loaded while websocket clients are connected.
SinkSetlists ==
    SetlistsOf(1..MaxSongs, {TRUE}, {1}, BOOLEAN, {FALSE}, {TRUE})

\* An order that may name a song twice and another not at all
ShufflesWithRepeats(n) == [1..n -> 0..(n - 1)]

\* random.shuffle(list(range(n))): any arrangement of 0..n-1
Shuffles(n) ==
    {s \in [1..n -> 0..(n - 1)] : \A i, j \in 1..n : s[i] = s[j] => i = j}

\* What a monitor saw when it observed the end-of-song threshold: the
\* settings, and the position and duration the audio engine reported.
NoThreshold == [gap |-> 0, countdown |-> FALSE, position |-> 0, duration |-> 0]

\* A monitor task: where it is suspended, the settings it saw at the
\* threshold, the locals of _countdown_handler while that runs (the position
\* in its range and next_song), the gap_countdown messages it has
\* broadcast, and the time since the threshold at which its sleep ends.
\* NoTask is Python's None; EndedTask is a task that has returned.
NoTask ==
    [pc |-> "none", seen |-> NoThreshold, step |-> 0, next_song |-> None,
     emitted |-> <<>>, elapsed |-> 0]

EndedTask == [NoTask EXCEPT !.pc = "done"]

\* A task that is created and never scheduled
CreateTaskNeverRun == [NoTask EXCEPT !.pc = "done"]

\* asyncio.create_task(self._auto_advance_handler())
CreateTask == [NoTask EXCEPT !.pc = "created"]

Suspended == {"created", "poll_sleep", "countdown_sleep", "gap_sleep"}

Live(t) == t.pc \in Suspended

One(t) == SetToBag({t})

\* The monitor tasks the event loop runs.
LiveTasks ==
    (IF Live(auto_advance_task) THEN {auto_advance_task} ELSE {})
    \cup BagToSet(orphans)

LiveCount ==
    (IF Live(auto_advance_task) THEN 1 ELSE 0) + BagCardinality(orphans)

\* The record of a broadcast: its message type, the connections whose
\* send_text returned, the number of send_text calls made and the connections
\* whose send_text raised.
NoMessage == [type |-> "none", to |-> {}, sent |-> 0, failed |-> {}]

\* The record of the last operation: its name, its argument, for a command
\* the suspension at which it cancelled the monitor, and for a monitor's call
\* of next_song the time since the threshold and the settings it saw there.
Op(name, arg) ==
    [op |-> name, arg |-> arg, cancelled |-> "none", elapsed |-> 0,
     seen |-> NoThreshold]

\* The record of a command that reaches its call of cancel()
CancellingOp(name, arg) ==
    [Op(name, arg) EXCEPT
        !.cancelled = IF Live(auto_advance_task) THEN auto_advance_task.pc
                      ELSE "none"]

\* ------------------------------------------------------ QueueManager reads
GetActualIndexIn(order, logical_index) ==
    IF order # <<>> THEN order[logical_index + 1] ELSE logical_index

GetActualIndex(logical_index) == GetActualIndexIn(shuffle_order, logical_index)

GetCurrentSongIn(sl, order, index) ==
    IF ~sl.loaded \/ index >= Len(sl.songs)
    THEN None
    ELSE sl.songs[GetActualIndexIn(order, index) + 1]

GetCurrentSong == GetCurrentSongIn(setlist, shuffle_order, current_index)

\* get_next_song without the wrap of a looping setlist
GetNextSongNoWrap(sl, order, index) ==
    IF ~sl.loaded \/ index + 1 >= Len(sl.songs)
    THEN None
    ELSE sl.songs[GetActualIndexIn(order, index + 1) + 1]

GetNextSongIn(sl, order, index) ==
    IF ~sl.loaded
    THEN None
    ELSE IF index + 1 >= Len(sl.songs)
         THEN IF sl.loop
              THEN IF Len(sl.songs) = 0
                   THEN IndexError
                   ELSE sl.songs[GetActualIndexIn(order, 0) + 1]
              ELSE None
         ELSE sl.songs[GetActualIndexIn(order, index + 1) + 1]

GetNextSong == GetNextSongIn(setlist, shuffle_order, current_index)

GetPreviousSong ==
    IF ~setlist.loaded \/ current_index = 0
    THEN None
    ELSE setlist.songs[GetActualIndex(current_index - 1) + 1]

\* SetlistSong.duration of the songs, in seconds, by song id
SongDuration == <<180, 240, 200>>

RECURSIVE SumDurations(_)
\* sum(song.duration for song in songs)
SumDurations(songs) ==
    IF songs = <<>> THEN 0
    ELSE SongDuration[Head(songs)] + SumDurations(Tail(songs))

\* The slice songs[:n]
Slice(songs, n) ==
    SubSeq(songs, 1, IF n >= Len(songs) THEN Len(songs)
                     ELSE IF n >= 0 THEN n
                     ELSE IF Len(songs) + n > 0 THEN Len(songs) + n ELSE 0)

\* A total that adds a gap after every song, the last one included
TotalDurationGapPerSong(sl) ==
    IF sl.songs = <<>> THEN 0
    ELSE SumDurations(sl.songs) + Len(sl.songs) * sl.gap_seconds

\* Setlist.total_duration
TotalDuration(sl) ==
    IF sl.songs = <<>> THEN 0
    ELSE SumDurations(sl.songs)
         + (IF Len(sl.songs) > 1 THEN (Len(sl.songs) - 1) * sl.gap_seconds
            ELSE 0)

\* get_progress with the slice taken one song too far
GetProgressInclusive(sl, index) ==
    [current_index |-> index,
     total_songs |-> Len(sl.songs),
     progress_percent |-> 0,
     elapsed_time |-> SumDurations(Slice(sl.songs, index + 1))
                      + index * sl.gap_seconds,
     total_time |-> TotalDuration(sl),
     remaining_songs |-> Len(sl.songs) - index - 1]

\* get_progress() of a scheduler with setlist sl at current_index = index
GetProgressIn(sl, index) ==
    IF ~sl.loaded
    THEN [current_index |-> 0, total_songs |-> 0, progress_percent |-> 0,
          elapsed_time |-> 0, total_time |-> 0, remaining_songs |-> 0]
    ELSE [current_index |-> index,
          total_songs |-> Len(sl.songs),
          progress_percent |-> IF sl.songs # <<>>
                               THEN (index * 100) \div Len(sl.songs)
                               ELSE 0,
          elapsed_time |-> SumDurations(Slice(sl.songs, index))
                           + index * sl.gap_seconds,
          total_time |-> TotalDuration(sl),
          remaining_songs |-> Len(sl.songs) - index - 1]

GetProgress == GetProgressIn(setlist, current_index)

\* ----------------------------------------------------------- event loop
\* `if self.auto_advance_task: self.auto_advance_task.cancel()` followed by
\* `self.auto_advance_task = None`: the tasks that go on running without a
\* handle.  A suspended task gets CancelledError at its await, which
\* `except asyncio.CancelledError: pass` of _auto_advance_handler turns into
\* its end (a task not yet started never starts); it runs no other code in
\* between, so nothing of it is left.  A task that cancels itself keeps
\* running until its next real suspension: see Broadcast.
\* A handle that is cleared while its task is left running
CancelIgnored(handle) == IF Live(handle) THEN One(handle) ELSE EmptyBag

Cancel(handle) == EmptyBag

\* `self.auto_advance_task = asyncio.create_task(...)` of play_current: the
\* task the handle referred to goes on running without a handle.
Replace(handle) == IF Live(handle) THEN One(handle) ELSE EmptyBag

\* --------------------------------------------------- WebSocketManager
\* A broadcast that gives up at the first connection whose send_text raises
BroadcastAbortOnFailure(type, must_cancel, sent, failing) ==
    LET reached == {i \in 1..sent :
                       \A j \in 1..(i - 1) : active_connections[j] \notin failing}
    IN  /\ sent \in 0..Len(active_connections)
        /\ ~must_cancel => sent = Len(active_connections)
        /\ failing \subseteq {active_connections[i] : i \in 1..sent}
        /\ sink' = [type |-> type,
                    to |-> {active_connections[i] : i \in reached} \ failing,
                    sent |-> sent, failed |-> failing]
        /\ active_connections' =
               IF sent = Len(active_connections)
               THEN SelectSeq(active_connections, LAMBDA c : c \notin failing)
               ELSE active_connections

\* broadcast(message) run by a task.  `sent` is the number of send_text
\* calls that returned or raised before the task was stopped: a task that
\* has cancelled itself gets CancelledError at the first send that really
\* suspends, all other tasks complete the loop.  `failing` are the
\* connections whose send_text raises; they are removed after the loop.
Broadcast(type, must_cancel, sent, failing) ==
    /\ sent \in 0..Len(active_connections)
    /\ ~must_cancel => sent = Len(active_connections)
    /\ failing \subseteq {active_connections[i] : i \in 1..sent}
    /\ sink' = [type |-> type,
                to |-> {active_connections[i] : i \in 1..sent} \ failing,
                sent |-> sent, failed |-> failing]
    /\ active_connections' =
           IF sent = Len(active_connections)
           THEN SelectSeq(active_connections, LAMBDA c : c \notin failing)
           ELSE active_connections

\* An operation that broadcasts nothing.
NoBroadcast(sent, failing) ==
    /\ sent = Len(active_connections)
    /\ failing = {}
    /\ sink' = NoMessage
    /\ UNCHANGED active_connections

\* connect(websocket), from the /ws endpoint
Connect(c) ==
    /\ c \notin Range(active_connections)
    /\ active_connections' = Append(active_connections, c)
    /\ sink' = NoMessage
    /\ last' = Op("connect", c)
    /\ UNCHANGED <<setlist, current_index, is_playing, auto_advance_task,
                   shuffle_order, orphans, quiet>>
    /\ UNCHANGED outside_queue

\* disconnect(websocket), from the /ws endpoint on WebSocketDisconnect
Disconnect(c) ==
    /\ c \in Range(active_connections)
    /\ active_connections' = SelectSeq(active_connections, LAMBDA d : d # c)
    /\ sink' = NoMessage
    /\ last' = Op("disconnect", c)
    /\ UNCHANGED <<setlist, current_index, is_playing, auto_advance_task,
                   shuffle_order, orphans, quiet>>
    /\ UNCHANGED outside_queue

\* ------------------------------------------------------------------- Init
\* QueueManager.__init__ and WebSocketManager.__init__
QueueInit ==
    /\ setlist = NoSetlist
    /\ current_index = 0
    /\ is_playing = FALSE
    /\ auto_advance_task = NoTask
    /\ shuffle_order = <<>>
    /\ orphans = EmptyBag
    /\ active_connections = <<>>
    /\ sink = NoMessage
    /\ last = Op("init", 0)
    /\ quiet = "none"

\* No Setlist instance is being edited.
NoEdit == [op |-> "none", args |-> <<>>, returned |-> None]

EditIdle == editing = NoSetlist /\ edit = NoEdit

\* Python's None where a section or an entry is expected
NoSection == [name |-> None, start_time |-> -1, end_time |-> -1, entries |-> <<>>]

NoEntry == [word |-> None, start_time |-> -1, end_time |-> -1, section |-> None]

\* No Song and no SyncEngine have been constructed.
NoSong == [bpm |-> -1, sections |-> <<>>]

NoEngine ==
    [song |-> NoSong, current_position |-> 0, current_entry |-> NoEntry,
     current_section |-> NoSection, current_beat |-> 0, last_beat_time |-> 0,
     on_entry_change |-> FALSE, on_section_change |-> FALSE, on_beat |-> FALSE]

\* The record of a call: its name and argument, what it returned, the
\* arguments its callbacks were called with, and whether it raised. For
\* reset, and for the first update after a reset, `cleared` is the entry
\* that was recorded when reset was called. `beat_before` is the last beat
\* that was reported before the call, if any: the beat, the position of its
\* update, and whether reset was called since.
NoCall ==
    [op |-> "none", arg |-> 0, returned |-> NoEntry, entry_events |-> <<>>,
     section_events |-> <<>>, beat_events |-> <<>>, raised |-> FALSE,
     upcoming |-> <<>>, cleared |-> NoEntry, beat_before |-> <<>>]

\* The run of updates with increasing positions: for each, its position and
\* the arguments of the callbacks it called.
NoRun == <<>>

SyncIdle ==
    sync = NoEngine /\ sync_out = NoCall /\ run = NoRun

\* AudioEngine(): nothing loaded, nothing playing, no callback, no thread.
\* The tracking thread is at "none" (never started), "test" (about to test
\* the loop condition), "calling" (in the loop over the callbacks, `index`
\* of them done), "sleep" or "ended".
NewAudioEngine ==
    [current_file |-> FALSE, is_playing |-> FALSE, is_paused |-> FALSE,
     stop_update |-> FALSE, position_callbacks |-> <<>>,
     update_thread |-> "none", index |-> 0]

\* The record of a tick of the tracking thread: the callbacks called so
\* far, which of these calls raised, whether a call raised in an earlier
\* tick of the thread, and whether the list changed since the tick began.
NoTick ==
    [called |-> <<>>, raised |-> {}, raised_before |-> FALSE,
     changed |-> FALSE]

AudioIdle == audio = NewAudioEngine /\ tick = NoTick

\* No Chord was made and no chord string was given.
ChordIdle == chords = <<>> /\ texts = <<>> /\ chord_log = <<>>

\* No call was made on a Song.
NoViewCall == [op |-> "", on |-> None, arg |-> 0, raised |-> ""]

\* No document was loaded and no Song was made from one.
ViewIdle == lists = <<>> /\ views = <<>> /\ view_out = NoViewCall

\* No call was made on MLCFormat.
NoMlcCall ==
    [op |-> "", raised |-> "", valid |-> FALSE, error |-> <<>>,
     done |-> FALSE]

\* The document MLCFormat.create_empty_mlc() returns: every required field
\* is there and the list of sections is empty.
EmptyMlc ==
    [version |-> TRUE,
     meta |-> [kind |-> "dict", keys |-> {"title", "bpm", "key", "duration"}],
     sections |-> [kind |-> "list", items |-> <<>>]]

\* The document is an empty one and no call was made with it.
MlcIdle == mlc = EmptyMlc /\ mlc_out = NoMlcCall

\* No broadcast() was called and no websocket was unregistered.
CastIdle == casts = <<>> /\ gone = {}

\* The program after the construction of QueueManager, WebSocketManager
\* and AudioEngine
Init == QueueInit /\ EditIdle /\ SyncIdle /\ AudioIdle /\ ChordIdle
        /\ ViewIdle
        /\ MlcIdle
        /\ CastIdle

\* ------------------------------------------------------- QueueManager
\* load_setlist(setlist), with the broadcast_setlist_update task it creates:
\* that task is the first thing the event loop runs after the handler.  Its
\* message cannot be built for an empty looping setlist (get_next_song
\* raises), and then nothing is broadcast.
LoadSetlist(sl, order, failing) ==
    /\ order \in (IF sl.shuffle THEN Shuffles(Len(sl.songs)) ELSE {<<>>})
    /\ setlist' = sl
    /\ current_index' = 0
    /\ is_playing' = FALSE
    /\ shuffle_order' = order
    /\ IF GetNextSongIn(sl, order, 0) = IndexError
       THEN NoBroadcast(Len(active_connections), failing)
       ELSE Broadcast("setlist_update", FALSE, Len(active_connections), failing)
    /\ UNCHANGED <<auto_advance_task, orphans>>
    /\ last' = Op("load_setlist", 0)
    /\ quiet' = "load"
    /\ UNCHANGED outside_queue

\* The body of play_current() once current_index is `index`, with the handle
\* `handle` and the other live tasks `others`, run by a task for which
\* must_cancel tells whether it has cancelled itself.
Play(index, handle, others, must_cancel, sent, failing) ==
    IF GetCurrentSongIn(setlist, shuffle_order, index) = None
    THEN /\ is_playing' = is_playing
         /\ auto_advance_task' = handle
         /\ orphans' = others
         /\ NoBroadcast(sent, failing)
    ELSE /\ is_playing' = TRUE
         /\ IF setlist.loaded /\ setlist.auto_advance
            THEN /\ auto_advance_task' = CreateTask
                 /\ orphans' = others (+) Replace(handle)
                 /\ BagCardinality(orphans') < MaxTasks
            ELSE /\ auto_advance_task' = handle
                 /\ orphans' = others
         /\ Broadcast("setlist_update", must_cancel, sent, failing)

\* play_current(), from POST /queue/play
PlayCurrent(failing) ==
    /\ Play(current_index, auto_advance_task, orphans, FALSE,
            Len(active_connections), failing)
    /\ UNCHANGED <<setlist, current_index, shuffle_order>>
    /\ last' = Op("play_current", 0)
    /\ quiet' = "none"
    /\ UNCHANGED outside_queue

\* The body of next_song() after its `if not self.setlist` test, with the
\* live tasks `others` that are neither the caller nor the task the handle
\* refers to.  A monitor that finds itself in auto_advance_task cancels
\* itself (must_cancel).
Advance(others, must_cancel, sent, failing) ==
    LET left == IF must_cancel THEN others
                ELSE others (+) Cancel(auto_advance_task)
        index == current_index + 1
    IN  /\ current_index < Len(setlist.songs) + MaxOvershoot
        /\ IF index >= Len(setlist.songs) /\ ~setlist.loop
           THEN /\ current_index' = index
                /\ is_playing' = FALSE
                /\ auto_advance_task' = NoTask
                /\ orphans' = left
                /\ Broadcast("setlist_finished", must_cancel, sent, failing)
           ELSE /\ current_index' =
                       (IF index >= Len(setlist.songs) THEN 0 ELSE index)
                /\ Play(current_index', NoTask, left, must_cancel, sent,
                        failing)
        /\ UNCHANGED <<setlist, shuffle_order>>

\* next_song(), from POST /queue/next
NextSong(failing) ==
    /\ IF ~setlist.loaded
       THEN /\ NoBroadcast(Len(active_connections), failing)
            /\ UNCHANGED <<setlist, current_index, is_playing,
                           auto_advance_task, shuffle_order, orphans>>
       ELSE Advance(orphans, FALSE, Len(active_connections), failing)
    /\ last' = IF setlist.loaded THEN CancellingOp("next_song", 0)
               ELSE Op("next_song", 0)
    /\ quiet' = "none"
    /\ UNCHANGED outside_queue

\* previous_song(), from POST /queue/previous
PreviousSong(failing) ==
    /\ IF ~setlist.loaded \/ current_index = 0
       THEN /\ NoBroadcast(Len(active_connections), failing)
            /\ UNCHANGED <<current_index, is_playing, auto_advance_task,
                           orphans>>
       ELSE /\ current_index' = current_index - 1
            /\ Play(current_index', NoTask,
                    orphans (+) Cancel(auto_advance_task), FALSE,
                    Len(active_connections), failing)
    /\ UNCHANGED <<setlist, shuffle_order>>
    /\ last' = IF ~setlist.loaded \/ current_index = 0
               THEN Op("previous_song", 0)
               ELSE CancellingOp("previous_song", 0)
    /\ quiet' = "none"
    /\ UNCHANGED outside_queue

\* A bounds check that lets the length of the list pass
JumpInRangeInclusive(index) == index >= 0 /\ index <= Len(setlist.songs)

\* The bounds check of jump_to_song(index)
JumpInRange(index) == index >= 0 /\ index < Len(setlist.songs)

\* jump_to_song(index), from POST /queue/jump/{index}
JumpToSong(index, failing) ==
    /\ IF ~setlist.loaded \/ ~JumpInRange(index)
       THEN /\ NoBroadcast(Len(active_connections), failing)
            /\ UNCHANGED <<current_index, is_playing, auto_advance_task,
                           orphans>>
       ELSE /\ current_index' = index
            /\ Play(index, NoTask, orphans (+) Cancel(auto_advance_task),
                    FALSE, Len(active_connections), failing)
    /\ UNCHANGED <<setlist, shuffle_order>>
    /\ last' = IF ~setlist.loaded \/ ~JumpInRange(index)
               THEN Op("jump_to_song", index)
               ELSE CancellingOp("jump_to_song", index)
    /\ quiet' = "none"
    /\ UNCHANGED outside_queue

\* stop(), from POST /queue/stop
Stop ==
    /\ is_playing' = FALSE
    /\ orphans' = orphans (+) Cancel(auto_advance_task)
    /\ auto_advance_task' = NoTask
    /\ NoBroadcast(Len(active_connections), {})
    /\ UNCHANGED <<setlist, current_index, shuffle_order>>
    /\ last' = CancellingOp("stop", 0)
    /\ quiet' = "stop"
    /\ UNCHANGED outside_queue

\* ------------------------------------------- QueueManager: the monitor
\* Monitor t is the task the handle refers to (tracked) or another live one.
Runs(t, tracked) ==
    IF tracked THEN t = auto_advance_task /\ Live(t) ELSE BagIn(t, orphans)

\* The live tasks other than monitor t and the task the handle refers to.
Others(t, tracked) == IF tracked THEN orphans ELSE orphans (-) One(t)

\* Monitor t goes on as `next`.
Resume(t, tracked, next) ==
    IF tracked
    THEN auto_advance_task' = next /\ orphans' = orphans
    ELSE auto_advance_task' = auto_advance_task
         /\ orphans' = Others(t, tracked) (+) One(next)

\* Monitor t returns; a handle that refers to it refers to an ended task.
Return(t, tracked) ==
    IF tracked
    THEN auto_advance_task' = EndedTask /\ orphans' = orphans
    ELSE auto_advance_task' = auto_advance_task
         /\ orphans' = Others(t, tracked)

\* A countdown that runs from gap_seconds - 1 down to 0
CountdownRangeToZero(gap_seconds) ==
    [i \in 1..gap_seconds |-> gap_seconds - i]

\* range(gap_seconds, 0, -1) of _countdown_handler
CountdownRange(gap_seconds) ==
    [i \in 1..gap_seconds |-> gap_seconds - i + 1]

\* A test for the end of the song that does not ask for a known duration
SongEndedAnyDuration(position, duration) ==
    position >= duration - EndThreshold

\* The test of _auto_advance_handler for the end of the song
SongEnded(position, duration) ==
    duration > 0 /\ position >= duration - EndThreshold

\* asyncio.sleep(self.setlist.settings.gap_seconds): _countdown_handler has
\* returned, if it ran, and the monitor enters its gap wait (a monitor exists
\* only once a setlist is loaded).
EnterGap(t) ==
    [t EXCEPT !.pc = "gap_sleep", !.step = 0, !.next_song = None,
              !.elapsed = @ + (IF setlist.loaded
                               THEN setlist.gap_seconds * TicksPerSecond
                               ELSE 0)]

\* One turn of the loop of _countdown_handler: the broadcast of position
\* `step` of the range, then asyncio.sleep(1).
EmitCountdown(t, step) ==
    [t EXCEPT !.pc = "countdown_sleep",
              !.step = step,
              !.emitted = Append(@, [remaining |-> CountdownRange(t.seen.gap)[step],
                                     next_song |-> t.next_song,
                                     at |-> t.elapsed]),
              !.elapsed = @ + TicksPerSecond]

\* The countdown loop of monitor t from position `step` on, then the gap wait.
Countdown(t, tracked, now, step, failing) ==
    IF step \in DOMAIN CountdownRange(now.seen.gap)
    THEN /\ Resume(t, tracked, EmitCountdown(now, step))
         /\ Broadcast("gap_countdown", FALSE, Len(active_connections), failing)
    ELSE /\ Resume(t, tracked, EnterGap(now))
         /\ NoBroadcast(Len(active_connections), failing)

\* _auto_advance_handler: one pass of the polling loop, from the start of the
\* task or from asyncio.sleep(0.1), with the position and duration the audio
\* engine reports.
MonitorPoll(t, tracked, position, duration, failing) ==
    /\ Runs(t, tracked)
    /\ t.pc \in {"created", "poll_sleep"}
    /\ IF ~is_playing
       THEN /\ Return(t, tracked)
            /\ NoBroadcast(Len(active_connections), failing)
       ELSE IF SongEnded(position, duration)
            THEN LET now == [t EXCEPT
                               !.seen = [gap |-> setlist.gap_seconds,
                                         countdown |-> setlist.loaded
                                                       /\ setlist.countdown,
                                         position |-> position,
                                         duration |-> duration]]
                 IN  IF setlist.loaded /\ setlist.countdown
                     THEN Countdown(t, tracked,
                                    [now EXCEPT !.next_song = GetNextSong],
                                    1, failing)
                     ELSE /\ Resume(t, tracked, EnterGap(now))
                          /\ NoBroadcast(Len(active_connections), failing)
            ELSE /\ Resume(t, tracked, [t EXCEPT !.pc = "poll_sleep"])
                 /\ NoBroadcast(Len(active_connections), failing)
    /\ UNCHANGED <<setlist, current_index, is_playing, shuffle_order, quiet>>
    /\ last' = Op("poll", 0)
    /\ UNCHANGED outside_queue

\* _auto_advance_handler: a pass of the polling loop in which get_position()
\* or get_duration() raises.  The handler catches CancelledError only, so the
\* exception ends the task; nothing is broadcast.
MonitorPollFails(t, tracked) ==
    /\ Runs(t, tracked)
    /\ t.pc \in {"created", "poll_sleep"}
    /\ is_playing
    /\ Return(t, tracked)
    /\ NoBroadcast(Len(active_connections), {})
    /\ UNCHANGED <<setlist, current_index, is_playing, shuffle_order, quiet>>
    /\ last' = Op("poll_failed", 0)
    /\ UNCHANGED outside_queue

\* _countdown_handler resumes from asyncio.sleep(1).
MonitorCountdown(t, tracked, failing) ==
    /\ Runs(t, tracked)
    /\ t.pc = "countdown_sleep"
    /\ Countdown(t, tracked, t, t.step + 1, failing)
    /\ UNCHANGED <<setlist, current_index, is_playing, shuffle_order, quiet>>
    /\ last' = Op("countdown", 0)
    /\ UNCHANGED outside_queue

\* _auto_advance_handler resumes from its gap wait: next_song(), then break.
MonitorAdvance(t, tracked, sent, failing) ==
    /\ Runs(t, tracked)
    /\ t.pc = "gap_sleep"
    /\ IF ~setlist.loaded
       THEN /\ Return(t, tracked)
            /\ NoBroadcast(sent, failing)
            /\ UNCHANGED <<setlist, current_index, is_playing, shuffle_order>>
       ELSE Advance(Others(t, tracked), tracked, sent, failing)
    /\ last' = [Op("advance", 0) EXCEPT !.elapsed = t.elapsed, !.seen = t.seen]
    /\ UNCHANGED quiet
    /\ UNCHANGED outside_queue

\* ------------------------------------------------------------ environment
\* What AudioEngine.get_position() / get_duration() may report, in ticks
Positions == {0, 24, 25}
Durations == {0, 30}

\* The connections whose send_text may raise
Failing == SUBSET Range(active_connections)

\* The operations of the scheduler, with the setlists of `family`
Scheduler(family) ==
    \/ \E sl \in family :
          \E order \in Shuffles(Len(sl.songs)) \cup {<<>>}, failing \in Failing :
             LoadSetlist(sl, order, failing)
    \/ \E failing \in Failing : PlayCurrent(failing)
    \/ \E failing \in Failing : NextSong(failing)
    \/ \E failing \in Failing : PreviousSong(failing)
    \/ \E index \in -1..MaxSongs, failing \in Failing :
          JumpToSong(index, failing)
    \/ Stop
    \/ \E t \in LiveTasks, tracked \in BOOLEAN, position \in Positions,
          duration \in Durations, failing \in Failing :
             MonitorPoll(t, tracked, position, duration, failing)
    \/ \E t \in LiveTasks, tracked \in BOOLEAN : MonitorPollFails(t, tracked)
    \/ \E t \in LiveTasks, tracked \in BOOLEAN, failing \in Failing :
          MonitorCountdown(t, tracked, failing)
    \/ \E t \in LiveTasks, tracked \in BOOLEAN, sent \in 0..Len(active_connections),
          failing \in Failing :
             MonitorAdvance(t, tracked, sent, failing)

\* The scheduler while no websocket client is connected
Next == Scheduler(Setlists)

Spec == Init /\ [][Next]_vars

\* The scheduler with websocket clients that connect and disconnect
SinkNext ==
    \/ Scheduler(SinkSetlists)
    \/ \E c \in ConnIds : Connect(c)
    \/ \E c \in ConnIds : Disconnect(c)

SinkSpec == Init /\ [][SinkNext]_vars

\* ------------------------------------------- QueueManager: a playthrough
\* The setlists that are played through by the monitor alone: auto_advance
\* on and loop off.
PlaythroughSetlists ==
    SetlistsOf(1..MaxSongs, {TRUE}, 0..MaxGap, {FALSE}, BOOLEAN, BOOLEAN)

\* The monitor has passed the test for the end of the song in a poll: the
\* audio engine reported a position at the end of a song of known duration.
MonitorPollAtEnd ==
    \E t \in LiveTasks, tracked \in BOOLEAN, position \in Positions,
       duration \in Durations, failing \in Failing :
          /\ SongEnded(position, duration)
          /\ MonitorPoll(t, tracked, position, duration, failing)

MonitorCountdownStep ==
    \E t \in LiveTasks, tracked \in BOOLEAN, failing \in Failing :
       MonitorCountdown(t, tracked, failing)

MonitorAdvanceStep ==
    \E t \in LiveTasks, tracked \in BOOLEAN, sent \in 0..Len(active_connections),
       failing \in Failing :
          MonitorAdvance(t, tracked, sent, failing)

\* Clients connect, a setlist is loaded and play_current() is called once;
\* from then on the monitor tasks are the only ones that run.
PlaythroughNext ==
    \/ \E c \in ConnIds : ~setlist.loaded /\ Connect(c)
    \/ \E sl \in PlaythroughSetlists :
          \E order \in Shuffles(Len(sl.songs)) \cup {<<>>}, failing \in Failing :
             ~setlist.loaded /\ LoadSetlist(sl, order, failing)
    \/ \E failing \in Failing : last.op = "load_setlist" /\ PlayCurrent(failing)
    \/ \E t \in LiveTasks, tracked \in BOOLEAN, position \in Positions,
          duration \in Durations, failing \in Failing :
             MonitorPoll(t, tracked, position, duration, failing)
    \/ MonitorCountdownStep
    \/ MonitorAdvanceStep

\* The event loop resumes every task whose sleep has ended, and the audio
\* engine reports the end of each song at some poll.
PlaythroughSpec ==
    /\ Init
    /\ [][PlaythroughNext]_vars
    /\ WF_vars(MonitorPollAtEnd)
    /\ WF_vars(MonitorCountdownStep)
    /\ WF_vars(MonitorAdvanceStep)

\* ------------------------------------------------------------ Setlist
\* The Setlist instances that are constructed for editing: no songs, the
\* default settings and a gap.
NewSetlists == SetlistsOf({0}, {TRUE}, 0..MaxGap, {FALSE}, {FALSE}, {TRUE})

\* list.insert(index, song)
InsertAt(songs, index, song) ==
    LET n == Len(songs)
        i == IF index < 0 THEN (IF index + n < 0 THEN 0 ELSE index + n)
             ELSE IF index > n THEN n ELSE index
    IN  SubSeq(songs, 1, i) \o <<song>> \o SubSeq(songs, i + 1, n)

\* The list after list.pop(index), for an index of the list
Pop(songs, index) ==
    SubSeq(songs, 1, index) \o SubSeq(songs, index + 2, Len(songs))

\* The bounds check of move_song, remove_song and get_song
EditInRange(index) == 0 <= index /\ index < Len(editing.songs)

\* Setlist(name=..., settings=...)
NewSetlist(sl) ==
    /\ editing' = sl
    /\ edit' = [op |-> "new", args |-> <<>>, returned |-> None]
    /\ UNCHANGED outside_edit

\* add_song(song, index), index = None when has_index is false
AddSong(song, has_index, index) ==
    /\ editing.loaded
    /\ Len(editing.songs) < MaxEdited
    /\ editing' = [editing EXCEPT !.songs =
                      IF has_index THEN InsertAt(@, index, song)
                      ELSE Append(@, song)]
    /\ edit' = [op |-> "add_song", args |-> <<song, has_index, index>>,
                returned |-> None]
    /\ UNCHANGED outside_edit

\* remove_song(index)
RemoveSong(index) ==
    /\ editing.loaded
    /\ IF EditInRange(index)
       THEN /\ editing' = [editing EXCEPT !.songs = Pop(@, index)]
            /\ edit' = [op |-> "remove_song", args |-> <<index>>,
                        returned |-> editing.songs[index + 1]]
       ELSE /\ editing' = editing
            /\ edit' = [op |-> "remove_song", args |-> <<index>>,
                        returned |-> None]
    /\ UNCHANGED outside_edit

\* A move that exchanges the songs at the two indexes
MoveSongSwap(from_index, to_index) ==
    /\ editing.loaded
    /\ editing' =
          IF EditInRange(from_index) /\ EditInRange(to_index)
          THEN [editing EXCEPT !.songs =
                   [@ EXCEPT ![from_index + 1] = editing.songs[to_index + 1],
                             ![to_index + 1] = editing.songs[from_index + 1]]]
          ELSE editing
    /\ edit' = [op |-> "move_song", args |-> <<from_index, to_index>>,
                returned |-> None]
    /\ UNCHANGED outside_edit

\* move_song(from_index, to_index)
MoveSong(from_index, to_index) ==
    /\ editing.loaded
    /\ editing' =
          IF EditInRange(from_index) /\ EditInRange(to_index)
          THEN [editing EXCEPT !.songs =
                   InsertAt(Pop(@, from_index), to_index, @[from_index + 1])]
          ELSE editing
    /\ edit' = [op |-> "move_song", args |-> <<from_index, to_index>>,
                returned |-> None]
    /\ UNCHANGED outside_edit

\* clear()
Clear ==
    /\ editing.loaded
    /\ editing' = [editing EXCEPT !.songs = <<>>]
    /\ edit' = [op |-> "clear", args |-> <<>>, returned |-> None]
    /\ UNCHANGED outside_edit

\* The indexes that are passed to the operations on the edited Setlist
EditIndexes == -1..MaxEdited

EditNext ==
    \/ \E sl \in NewSetlists : NewSetlist(sl)
    \/ \E song \in DOMAIN SongDuration, has_index \in BOOLEAN,
          index \in EditIndexes :
             AddSong(song, has_index, IF has_index THEN index ELSE 0)
    \/ \E index \in EditIndexes : RemoveSong(index)
    \/ \E from_index \in EditIndexes, to_index \in EditIndexes :
          MoveSong(from_index, to_index)
    \/ Clear

\* Setlist instances under construction and edit
EditSpec == Init /\ [][EditNext]_vars

\* ------------------------------------------------------- Song, SyncEngine
Times == 0..MaxTime

\* start_time and end_time of a section or an entry
Intervals == {iv \in Times \X Times : iv[1] <= iv[2]}

\* Lists of k entries; an entry is known by its word
EntryLists(k) ==
    {[j \in 1..k |-> [word |-> j, start_time |-> iv[j][1],
                      end_time |-> iv[j][2]]] : iv \in [1..k -> Intervals]}

RECURSIVE Total(_)
Total(counts) ==
    IF counts = <<>> THEN 0 ELSE Head(counts) + Total(Tail(counts))

\* The numbers of entries of the sections of a document
Shapes ==
    {counts \in UNION {[1..n -> 0..MaxItems] : n \in 0..MaxItems} :
        Len(counts) + Total(counts) <= MaxItems}

\* The section lists of a shape; a section is named after its place
SectionLists(counts) ==
    {[i \in 1..Len(counts) |->
         [name |-> i, start_time |-> iv[i][1], end_time |-> iv[i][2],
          entries |-> es[i]]] :
       iv \in [1..Len(counts) -> Intervals],
       es \in {f \in [1..Len(counts) ->
                         UNION {EntryLists(counts[i]) : i \in 1..Len(counts)}] :
                  \A i \in 1..Len(counts) : Len(f[i]) = counts[i]}}

\* meta.bpm of the documents: validate_mlc_data asks for its presence only
Bpms == {0, 30, 60}

\* The documents that pass validate_mlc_data: every list of sections with a
\* beat longer than the latest position, and every bpm without sections.
Documents ==
    {[bpm |-> 20, sections |-> ss] : ss \in UNION {SectionLists(c) : c \in Shapes}}
    \cup {[bpm |-> b, sections |-> <<>>] : b \in Bpms}

\* Song(mlc_data, transpose=0, bpm_override): `bpm_override or meta["bpm"]`,
\* and a copy of the sections
NewSong(mlc_data, bpm_override) ==
    [bpm |-> IF bpm_override # None THEN bpm_override ELSE mlc_data.bpm,
     sections |-> mlc_data.sections]

\* SyncEngine(song)
NewEngine(sg) == [NoEngine EXCEPT !.song = sg]

\* The test `start_time <= time <= end_time` of a section or an entry
Contains(x, time) == x.start_time <= time /\ time <= x.end_time

\* The value get_entry_at_time returns for entry j of section i
EntryOf(sections, i, j) ==
    [word |-> sections[i].entries[j].word,
     start_time |-> sections[i].entries[j].start_time,
     end_time |-> sections[i].entries[j].end_time,
     section |-> sections[i].name]

RECURSIVE EntryFrom(_, _, _, _)
\* The loops of get_entry_at_time from entry j of section i on
EntryFrom(sections, i, j, time) ==
    IF i > Len(sections) THEN NoEntry
    ELSE IF ~Contains(sections[i], time) \/ j > Len(sections[i].entries)
         THEN EntryFrom(sections, i + 1, 1, time)
         ELSE IF Contains(sections[i].entries[j], time)
              THEN EntryOf(sections, i, j)
              ELSE EntryFrom(sections, i, j + 1, time)

\* get_entry_at_time with the end of an entry left out of the entry
GetEntryAtTimeBeforeEnd(sg, time) ==
    LET at == {p \in {<<i, j>> : i \in 1..Len(sg.sections), j \in 1..MaxItems} :
                 /\ p[2] <= Len(sg.sections[p[1]].entries)
                 /\ Contains(sg.sections[p[1]], time)
                 /\ sg.sections[p[1]].entries[p[2]].start_time <= time
                 /\ time < sg.sections[p[1]].entries[p[2]].end_time}
    IN  IF at = {} THEN NoEntry
        ELSE LET p == CHOOSE q \in at : \A r \in at :
                          q[1] < r[1] \/ (q[1] = r[1] /\ q[2] <= r[2])
             IN  EntryOf(sg.sections, p[1], p[2])

\* Song.get_entry_at_time(time)
GetEntryAtTimeOf(sg, time) == EntryFrom(sg.sections, 1, 1, time)

RECURSIVE SectionFrom(_, _, _)
\* The loop of get_section_at_time from section i on
SectionFrom(sections, i, time) ==
    IF i > Len(sections) THEN NoSection
    ELSE IF Contains(sections[i], time) THEN sections[i]
         ELSE SectionFrom(sections, i + 1, time)

\* Song.get_section_at_time(time)
GetSectionAtTimeOf(sg, time) == SectionFrom(sg.sections, 1, time)

\* The songs the engine is bound to: every document as it is, and the
\* documents without sections with a bpm_override as well
Songs ==
    {NewSong(d, None) : d \in Documents}
    \cup {NewSong(d, 60) : d \in {x \in Documents : x.sections = <<>>}}

\* A callback is due whatever the recorded value is.
ChangedOrSame(value, current) == TRUE

\* The tests `entry != self._current_entry` and
\* `section != self._current_section` of update
Changed(value, current) == value # current

\* The record of a call of update in the run of updates
RunStep(position, entry_events, section_events) ==
    [position |-> position, entry_events |-> entry_events,
     section_events |-> section_events]

\* The run of updates with increasing positions after update(position)
RunAfter(position, step) ==
    IF run # <<>> /\ position > run[Len(run)].position
    THEN Append(run, step) ELSE <<step>>

\* A beat counter that is not reduced
NextBeatUnreduced(current_beat) == current_beat + 1

\* `(self._current_beat + 1) % 4` of _update_beat
NextBeat(current_beat) == (current_beat + 1) % 4

\* The last beat reported up to the call that sync_out records, for the
\* record of the next call
BeatBefore(is_reset) ==
    IF sync_out.beat_events # <<>>
    THEN <<[beat |-> sync_out.beat_events[1], position |-> sync_out.arg,
            reset |-> is_reset]>>
    ELSE IF sync_out.beat_before # <<>>
         THEN <<[sync_out.beat_before[1] EXCEPT
                    !.reset = @ \/ is_reset]>>
         ELSE <<>>

\* SyncEngine.update(position), with _update_beat(position) at its end. A
\* bpm of 0 makes _update_beat raise ZeroDivisionError after the entry and
\* the section were handled.
Update(position) ==
    LET entry == GetEntryAtTimeOf(sync.song, position)
        section == GetSectionAtTimeOf(sync.song, position)
        entry_events ==
            IF Changed(entry, sync.current_entry) /\ sync.on_entry_change
               /\ entry # NoEntry
            THEN <<entry>> ELSE <<>>
        section_events ==
            IF Changed(section, sync.current_section) /\ sync.on_section_change
               /\ section # NoSection
            THEN <<section>> ELSE <<>>
        raises == sync.song.bpm = 0
        beat_duration == IF raises THEN 0 ELSE 60 \div sync.song.bpm
        beat == ~raises /\ position - sync.last_beat_time >= beat_duration
        current_beat ==
            IF beat THEN NextBeat(sync.current_beat) ELSE sync.current_beat
    IN  /\ sync.song # NoSong
        /\ sync' = [sync EXCEPT !.current_position = position,
                                !.current_entry = entry,
                                !.current_section = section,
                                !.current_beat = current_beat,
                                !.last_beat_time =
                                    IF beat THEN position ELSE @]
        /\ sync_out' = [NoCall EXCEPT !.op = "update", !.arg = position,
                                      !.entry_events = entry_events,
                                      !.section_events = section_events,
                                      !.beat_events =
                                          IF beat /\ sync.on_beat
                                          THEN <<current_beat + 1>> ELSE <<>>,
                                      !.raised = raises,
                                      !.cleared =
                                          IF sync_out.op = "reset"
                                          THEN sync_out.cleared ELSE NoEntry,
                                      !.beat_before = BeatBefore(FALSE)]
        /\ run' = RunAfter(position,
                           RunStep(position, entry_events, section_events))
        /\ UNCHANGED outside_sync

\* SyncEngine.set_on_entry_change(callback)
SetOnEntryChange ==
    /\ sync.song # NoSong
    /\ sync' = [sync EXCEPT !.on_entry_change = TRUE]
    /\ UNCHANGED <<sync_out, run, outside_sync>>

\* SyncEngine.set_on_section_change(callback)
SetOnSectionChange ==
    /\ sync.song # NoSong
    /\ sync' = [sync EXCEPT !.on_section_change = TRUE]
    /\ UNCHANGED <<sync_out, run, outside_sync>>

\* SyncEngine.set_on_beat(callback)
SetOnBeat ==
    /\ sync.song # NoSong
    /\ sync' = [sync EXCEPT !.on_beat = TRUE]
    /\ UNCHANGED <<sync_out, run, outside_sync>>

\* reset() that leaves the recorded entry and section in place
ResetKeepsCurrent ==
    /\ sync.song # NoSong
    /\ sync' = [sync EXCEPT !.current_position = 0,
                            !.current_beat = 0,
                            !.last_beat_time = 0]
    /\ sync_out' = [NoCall EXCEPT !.op = "reset",
                                  !.cleared = sync.current_entry,
                                  !.beat_before = BeatBefore(TRUE)]
    /\ run' = NoRun
    /\ UNCHANGED outside_sync

\* SyncEngine.reset()
Reset ==
    /\ sync.song # NoSong
    /\ sync' = [sync EXCEPT !.current_position = 0,
                            !.current_entry = NoEntry,
                            !.current_section = NoSection,
                            !.current_beat = 0,
                            !.last_beat_time = 0]
    /\ sync_out' = [NoCall EXCEPT !.op = "reset",
                                  !.cleared = sync.current_entry,
                                  !.beat_before = BeatBefore(TRUE)]
    /\ run' = NoRun
    /\ UNCHANGED outside_sync

\* A SyncEngine on one of the songs, with no call made yet
SyncInit ==
    /\ QueueInit
    /\ EditIdle
    /\ sync \in {NewEngine(sg) : sg \in Songs}
    /\ sync_out = NoCall
    /\ run = NoRun
    /\ AudioIdle
    /\ ChordIdle
    /\ CastIdle
    /\ MlcIdle
    /\ ViewIdle

SyncNext ==
    \/ \E position \in Times : Update(position)
    \/ SetOnEntryChange
    \/ SetOnSectionChange
    \/ SetOnBeat
    \/ Reset

\* A SyncEngine driven by position updates
SyncSpec == SyncInit /\ [][SyncNext]_vars

\* The positions of the updates that count beats
BeatTimes == 0..MaxBeatTime

\* A SyncEngine on a song without sections, with no call made yet
BeatInit ==
    /\ SyncInit
    /\ sync.song.sections = <<>>

BeatNext ==
    \/ \E position \in BeatTimes : Update(position)
    \/ SetOnBeat
    \/ Reset

\* A SyncEngine counting beats
BeatSpec == BeatInit /\ [][BeatNext]_vars

\* Song.get_entry_at_time(time), called by a client of the Song
GetEntryAtTime(time) ==
    /\ sync.song # NoSong
    /\ sync_out' = [NoCall EXCEPT !.op = "get_entry_at_time", !.arg = time,
                                  !.returned =
                                      GetEntryAtTimeOf(sync.song, time),
                                  !.beat_before = BeatBefore(FALSE)]
    /\ UNCHANGED <<sync, run, outside_sync>>

SongNext == \E time \in Times : GetEntryAtTime(time)

\* A Song queried for its entries
SongSpec == SyncInit /\ [][SongNext]_vars

\* The window test with the current position left out of the window
InWindowAfter(entry, position, end_time) ==
    position < entry.start_time /\ entry.start_time <= end_time

\* The test `self._current_position <= entry["start_time"] <= end_time`
InWindow(entry, position, end_time) ==
    position <= entry.start_time /\ entry.start_time <= end_time

RECURSIVE UpcomingFrom(_, _, _, _)
\* The loop of get_upcoming_entries from section i on: it stops at a section
\* that starts after the window and skips a section that ended before it.
UpcomingFrom(sections, i, position, end_time) ==
    IF i > Len(sections) THEN <<>>
    ELSE IF sections[i].start_time > end_time THEN <<>>
    ELSE IF sections[i].end_time < position
         THEN UpcomingFrom(sections, i + 1, position, end_time)
         ELSE SelectSeq([j \in 1..Len(sections[i].entries) |->
                            EntryOf(sections, i, j)],
                        LAMBDA entry : InWindow(entry, position, end_time))
              \o UpcomingFrom(sections, i + 1, position, end_time)

\* The lookahead times of get_upcoming_entries
Lookaheads == 0..MaxTime

\* SyncEngine.get_upcoming_entries(lookahead)
GetUpcomingEntries(lookahead) ==
    /\ sync.song # NoSong
    /\ sync_out' = [NoCall EXCEPT
                       !.op = "get_upcoming_entries", !.arg = lookahead,
                       !.upcoming =
                           UpcomingFrom(sync.song.sections, 1,
                                        sync.current_position,
                                        sync.current_position + lookahead),
                       !.beat_before = BeatBefore(FALSE)]
    /\ UNCHANGED <<sync, run, outside_sync>>

UpcomingNext ==
    \/ \E position \in Times : Update(position)
    \/ \E lookahead \in Lookaheads : GetUpcomingEntries(lookahead)

\* A SyncEngine asked for the entries ahead of its position
UpcomingSpec == SyncInit /\ [][UpcomingNext]_vars

\* ------------------------------------------------------------ AudioEngine
CallbackIds == 1..MaxCallbacks

\* list.remove(x): the list without the first occurrence of x
RemoveFirst(list, x) ==
    LET at == CHOOSE i \in 1..Len(list) :
                  list[i] = x /\ \A j \in 1..(i - 1) : list[j] # x
    IN  [i \in 1..(Len(list) - 1) |-> IF i < at THEN list[i] ELSE list[i + 1]]

\* The tracking thread is alive: started and not yet returned.
IsAlive == audio.update_thread \in {"test", "calling", "sleep"}

\* What a change of the callback list does to the record of the tick
ListChanged ==
    [tick EXCEPT !.changed = @ \/ audio.update_thread \in {"calling", "sleep"}]

\* AudioEngine.add_position_callback(callback)
AddPositionCallback(callback) ==
    /\ Len(audio.position_callbacks) < MaxCallbacks
    /\ audio' = [audio EXCEPT !.position_callbacks = Append(@, callback)]
    /\ tick' = ListChanged
    /\ UNCHANGED outside_audio

\* AudioEngine.remove_position_callback(callback)
RemovePositionCallback(callback) ==
    /\ callback \in Range(audio.position_callbacks)
    /\ audio' = [audio EXCEPT !.position_callbacks = RemoveFirst(@, callback)]
    /\ tick' = ListChanged
    /\ UNCHANGED outside_audio

\* AudioEngine.stop(): _stop_position_tracking() first, then the flags
AudioStopped ==
    [audio EXCEPT !.stop_update = TRUE, !.is_playing = FALSE,
                  !.is_paused = FALSE]

AudioStop ==
    /\ audio' = AudioStopped
    /\ UNCHANGED <<tick, outside_audio>>

\* AudioEngine.load(audio_file) of a file that exists: stop(), then the load
AudioLoad ==
    /\ audio' = [AudioStopped EXCEPT !.current_file = TRUE]
    /\ UNCHANGED <<tick, outside_audio>>

\* AudioEngine.play(): RuntimeError with no file loaded; otherwise playing,
\* and _start_position_tracking() starts a thread unless one is alive.
AudioPlay ==
    /\ audio.current_file
    /\ audio' = [audio EXCEPT !.is_paused = FALSE,
                              !.is_playing = TRUE,
                              !.stop_update = IF IsAlive THEN @ ELSE FALSE,
                              !.update_thread = IF IsAlive THEN @ ELSE "test",
                              !.index = IF IsAlive THEN @ ELSE 0]
    /\ UNCHANGED <<tick, outside_audio>>

\* AudioEngine.pause()
AudioPause ==
    /\ audio.is_playing /\ ~audio.is_paused
    /\ audio' = [audio EXCEPT !.is_paused = TRUE, !.is_playing = FALSE,
                              !.stop_update = TRUE]
    /\ UNCHANGED <<tick, outside_audio>>

\* _position_update_loop: the test of the while loop. A new tick starts with
\* nothing called; a thread that starts has had no callback raise.
LoopTest ==
    /\ audio.update_thread = "test"
    /\ IF ~audio.stop_update /\ audio.is_playing
       THEN /\ audio' = [audio EXCEPT !.update_thread = "calling", !.index = 0]
            /\ tick' = [called |-> <<>>, raised |-> {},
                        raised_before |-> tick.raised_before \/ tick.raised # {},
                        changed |-> FALSE]
       ELSE /\ audio' = [audio EXCEPT !.update_thread = "ended"]
            /\ tick' = NoTick
    /\ UNCHANGED outside_audio

\* The loop stops at the callback that raises.
CallNextUncaught(raises) ==
    /\ audio.update_thread = "calling"
    /\ audio.index < Len(audio.position_callbacks)
    /\ audio' = [audio EXCEPT !.index = @ + 1,
                              !.update_thread =
                                  IF raises THEN "ended" ELSE @]
    /\ tick' = [tick EXCEPT
                   !.called = Append(@, audio.position_callbacks[audio.index + 1]),
                   !.raised = IF raises THEN @ \cup {audio.index + 1} ELSE @]
    /\ UNCHANGED outside_audio

\* _position_update_loop: one turn of the for loop over the list. The
\* callback is called in a try block whose handler prints the Exception.
CallNext(raises) ==
    /\ audio.update_thread = "calling"
    /\ audio.index < Len(audio.position_callbacks)
    /\ audio' = [audio EXCEPT !.index = @ + 1]
    /\ tick' = [tick EXCEPT
                   !.called = Append(@, audio.position_callbacks[audio.index + 1]),
                   !.raised = IF raises THEN @ \cup {audio.index + 1} ELSE @]
    /\ UNCHANGED outside_audio

\* _position_update_loop: the for loop is over, time.sleep(0.05)
Sleep ==
    /\ audio.update_thread = "calling"
    /\ audio.index >= Len(audio.position_callbacks)
    /\ audio' = [audio EXCEPT !.update_thread = "sleep"]
    /\ UNCHANGED <<tick, outside_audio>>

\* _position_update_loop: the sleep is over
Wake ==
    /\ audio.update_thread = "sleep"
    /\ audio' = [audio EXCEPT !.update_thread = "test"]
    /\ UNCHANGED <<tick, outside_audio>>

AudioNext ==
    \/ \E callback \in CallbackIds : AddPositionCallback(callback)
    \/ \E callback \in CallbackIds : RemovePositionCallback(callback)
    \/ AudioLoad
    \/ AudioPlay
    \/ AudioPause
    \/ AudioStop
    \/ LoopTest
    \/ \E raises \in BOOLEAN : CallNext(raises)
    \/ Sleep
    \/ Wake

\* The AudioEngine with its tracking thread and its clients
AudioSpec == Init /\ [][AudioNext]_vars

\* ------------------------------------------------------- ChordRoot, Chord
\* The values of the members of ChordRoot
PitchClasses == 0..11

\* Chord(root, suffix, bass): a suffix is a string, here the sequence of its
\* characters; a bass is <<>> for None and <<value>> for a ChordRoot.
NewChord(root, suffix, bass) == [root |-> root, suffix |-> suffix, bass |-> bass]

\* The bass notes a Chord can have
Basses == {<<>>} \cup {<<b>> : b \in PitchClasses}

\* The truth value of a bass as if ChordRoot were an IntEnum
TruthyAsInt(bass) == bass # <<>> /\ bass[1] # 0

\* The truth value of `self.bass`: None is false, and every member of the
\* plain Enum ChordRoot is true, ChordRoot.C with value 0 included.
Truthy(bass) == bass # <<>>

\* transpose without the reduction modulo 12
TransposeOfUnreduced(chord, semitones) ==
    NewChord(chord.root + semitones, chord.suffix,
             IF Truthy(chord.bass) THEN <<chord.bass[1] + semitones>> ELSE <<>>)

\* Chord.transpose(semitones): the Chord it returns
TransposeOf(chord, semitones) ==
    NewChord((chord.root + semitones) % 12, chord.suffix,
             IF Truthy(chord.bass)
             THEN <<(chord.bass[1] + semitones) % 12>> ELSE <<>>)

\* The record of a call: its name, the place of the chord or the string it
\* was made on, its argument, and the place of what it returned (None for
\* no result).
Call(op, on, arg, returned) ==
    [op |-> op, on |-> on, arg |-> arg, returned |-> returned]

Semitones == (0 - MaxSemitones)..MaxSemitones

\* Chord.transpose(semitones) on the newest Chord: a new Chord is made
Transpose(semitones) ==
    /\ chords # <<>>
    /\ Len(chord_log) < MaxChain
    /\ chords' = Append(chords, TransposeOf(chords[Len(chords)], semitones))
    /\ chord_log' = Append(chord_log,
                           Call("transpose", Len(chords), semitones,
                                Len(chords) + 1))
    /\ UNCHANGED <<texts, outside_chord>>

\* ChordRoot.name, by value
Names ==
    <<<<"C">>, <<"C", "s">>, <<"D">>, <<"D", "s">>, <<"E">>, <<"F">>,
      <<"F", "s">>, <<"G">>, <<"G", "s">>, <<"A">>, <<"A", "s">>, <<"B">>>>

\* ChordRoot.sharp_name: name.replace('s', '#')
SharpName(value) ==
    [i \in 1..Len(Names[value + 1]) |->
        IF Names[value + 1][i] = "s" THEN "#" ELSE Names[value + 1][i]]

\* ChordRoot.flat_name: flats.get(name, name)
FlatName(value) ==
    CASE Names[value + 1] = <<"C", "s">> -> <<"D", "b">>
      [] Names[value + 1] = <<"D", "s">> -> <<"E", "b">>
      [] Names[value + 1] = <<"F", "s">> -> <<"G", "b">>
      [] Names[value + 1] = <<"G", "s">> -> <<"A", "b">>
      [] Names[value + 1] = <<"A", "s">> -> <<"B", "b">>
      [] OTHER -> Names[value + 1]

\* The name of a note in the notation asked for
NoteName(value, prefer_sharp) ==
    IF prefer_sharp THEN SharpName(value) ELSE FlatName(value)

\* Chord.to_string(prefer_sharp)
ToStringOf(chord, prefer_sharp) ==
    NoteName(chord.root, prefer_sharp) \o chord.suffix
    \o (IF Truthy(chord.bass)
        THEN <<"/">> \o NoteName(chord.bass[1], prefer_sharp) ELSE <<>>)

\* str.upper() of a character; no character but a..g becomes one of A..G
Upper(c) ==
    CASE c = "a" -> "A" [] c = "b" -> "B" [] c = "c" -> "C" [] c = "d" -> "D"
      [] c = "e" -> "E" [] c = "f" -> "F" [] c = "g" -> "G" [] OTHER -> c

\* str.strip(): the string without its leading and trailing blanks
RECURSIVE Strip(_)
Strip(text) ==
    IF text = <<>> THEN <<>>
    ELSE IF Head(text) = " " THEN Strip(Tail(text))
    ELSE IF text[Len(text)] = " " THEN Strip(SubSeq(text, 1, Len(text) - 1))
    ELSE text

\* ChordRoot.from_string(note_str): <<>> for None, <<value>> for a member;
\* note_map has no key for CB, FB, E# and B#.
NoteFromString(note_str) ==
    LET note == [i \in 1..Len(Strip(note_str)) |-> Upper(Strip(note_str)[i])]
    IN  CASE note = <<"C">> -> <<0>>
          [] note = <<"C", "#">> -> <<1>> [] note = <<"D", "B">> -> <<1>>
          [] note = <<"D">> -> <<2>>
          [] note = <<"D", "#">> -> <<3>> [] note = <<"E", "B">> -> <<3>>
          [] note = <<"E">> -> <<4>>
          [] note = <<"F">> -> <<5>>
          [] note = <<"F", "#">> -> <<6>> [] note = <<"G", "B">> -> <<6>>
          [] note = <<"G">> -> <<7>>
          [] note = <<"G", "#">> -> <<8>> [] note = <<"A", "B">> -> <<8>>
          [] note = <<"A">> -> <<9>>
          [] note = <<"A", "#">> -> <<10>> [] note = <<"B", "B">> -> <<10>>
          [] note = <<"B">> -> <<11>>
          [] OTHER -> <<>>

\* The character class [A-G] of the pattern
RootLetters == {"A", "B", "C", "D", "E", "F", "G"}

\* The character class [#b] of the pattern
Accidentals == {"#", "b"}

\* The text matches `[A-G][#b]?` as a whole.
IsNote(text) ==
    /\ Len(text) \in {1, 2}
    /\ text[1] \in RootLetters
    /\ Len(text) = 2 => text[2] \in Accidentals

\* The place of the first "/" of the text, 0 for none
FirstSlash(text) ==
    IF \E i \in 1..Len(text) : text[i] = "/"
    THEN CHOOSE i \in 1..Len(text) :
            text[i] = "/" /\ \A j \in 1..(i - 1) : text[j] # "/"
    ELSE 0

\* re.match of `^([A-G][#b]?)([^/]*?)(?:/([A-G][#b]?))?$`: the three groups
\* of the match, or no match. The optional accidental is taken whenever it
\* is there, since the suffix that follows may be empty; the suffix runs to
\* the first "/" and what follows that "/" must be a note.
Match(text) ==
    IF text = <<>> \/ text[1] \notin RootLetters
    THEN [matched |-> FALSE, root |-> <<>>, suffix |-> <<>>, bass |-> <<>>]
    ELSE LET n == IF Len(text) >= 2 /\ text[2] \in Accidentals THEN 2 ELSE 1
             rest == SubSeq(text, n + 1, Len(text))
             k == FirstSlash(rest)
         IN  IF k = 0
             THEN [matched |-> TRUE, root |-> SubSeq(text, 1, n),
                   suffix |-> rest, bass |-> <<>>]
             ELSE IF IsNote(SubSeq(rest, k + 1, Len(rest)))
                  THEN [matched |-> TRUE, root |-> SubSeq(text, 1, n),
                        suffix |-> SubSeq(rest, 1, k - 1),
                        bass |-> SubSeq(rest, k + 1, Len(rest))]
                  ELSE [matched |-> FALSE, root |-> <<>>, suffix |-> <<>>,
                        bass |-> <<>>]

\* Chord.from_string(chord_str): <<>> for None, <<chord>> for a Chord
FromStringOf(chord_str) ==
    IF chord_str = <<>> THEN <<>>
    ELSE LET m == Match(Strip(chord_str))
         IN  IF ~m.matched THEN <<>>
             ELSE IF NoteFromString(m.root) = <<>> THEN <<>>
             ELSE IF m.bass # <<>> /\ NoteFromString(m.bass) = <<>> THEN <<>>
             ELSE <<NewChord(NoteFromString(m.root)[1], m.suffix,
                             IF m.bass # <<>> THEN NoteFromString(m.bass)
                             ELSE <<>>)>>

\* All strings of at most n characters of an alphabet
StringsOf(alphabet, n) == UNION {[1..k -> alphabet] : k \in 0..n}

\* Chord.to_string(prefer_sharp) on the newest Chord
ChordToString(prefer_sharp) ==
    /\ chords # <<>>
    /\ Len(chord_log) < MaxCalls
    /\ texts' = Append(texts, ToStringOf(chords[Len(chords)], prefer_sharp))
    /\ chord_log' = Append(chord_log,
                           Call("to_string", Len(chords), prefer_sharp,
                                Len(texts) + 1))
    /\ UNCHANGED <<chords, outside_chord>>

\* Chord.from_string(chord_str) on the newest string
ChordFromString ==
    /\ texts # <<>>
    /\ Len(chord_log) < MaxCalls
    /\ chords' = chords \o FromStringOf(texts[Len(texts)])
    /\ chord_log' = Append(chord_log,
                           Call("from_string", Len(texts), None,
                                IF FromStringOf(texts[Len(texts)]) = <<>>
                                THEN None ELSE Len(chords) + 1))
    /\ UNCHANGED <<texts, outside_chord>>

\* The suffixes of the chords that are rendered: slash-free strings
Suffixes == StringsOf({"m", "b", "#", "5"}, MaxSuffix)

\* A Chord to render
RenderInit ==
    /\ QueueInit /\ EditIdle /\ SyncIdle /\ AudioIdle /\ ViewIdle
    /\ MlcIdle
    /\ CastIdle
    /\ chords \in {<<NewChord(r, q, b)>> :
                      r \in PitchClasses, q \in Suffixes, b \in Basses}
    /\ texts = <<>>
    /\ chord_log = <<>>

RenderNext ==
    \/ \E prefer_sharp \in BOOLEAN : ChordToString(prefer_sharp)
    \/ ChordFromString

\* Chords rendered and parsed back
RenderSpec == RenderInit /\ [][RenderNext]_vars

\* The suffixes of the chords that are transposed
PlainSuffixes == {<<>>, <<"m">>}

\* A Chord to transpose
TransposeInit ==
    /\ QueueInit /\ EditIdle /\ SyncIdle /\ AudioIdle /\ ViewIdle
    /\ MlcIdle
    /\ CastIdle
    /\ chords \in {<<NewChord(r, q, b)>> :
                      r \in PitchClasses, q \in PlainSuffixes, b \in Basses}
    /\ texts = <<>>
    /\ chord_log = <<>>

TransposeNext == \E semitones \in Semitones : Transpose(semitones)

\* Chords under transposition
TransposeSpec == TransposeInit /\ [][TransposeNext]_vars


\* The characters of the chord strings that are parsed
Characters == {"A", "C", "a", "c", "b", "#", "/", "m", " "}

\* The chord strings that are parsed
ChordStrings == StringsOf(Characters, MaxText)

\* str.swapcase() of a character
SwapCase(c) ==
    CASE c = "A" -> "a" [] c = "a" -> "A" [] c = "C" -> "c" [] c = "c" -> "C"
      [] c = "b" -> "B" [] c = "m" -> "M" [] OTHER -> c

\* The caller writes the newest string again with the case of one character
\* changed.
ChangeCase(i) ==
    /\ texts # <<>>
    /\ Len(texts) <= MaxVariants
    /\ i \in 1..Len(texts[Len(texts)])
    /\ texts' = Append(texts, [texts[Len(texts)] EXCEPT ![i] = SwapCase(@)])
    /\ UNCHANGED <<chords, chord_log, outside_chord>>

\* A chord string to parse
ParseInit ==
    /\ QueueInit /\ EditIdle /\ SyncIdle /\ AudioIdle /\ ViewIdle
    /\ MlcIdle
    /\ CastIdle
    /\ chords = <<>>
    /\ texts \in {<<t>> : t \in ChordStrings}
    /\ chord_log = <<>>

ParseNext ==
    \/ ChordFromString
    \/ \E i \in 1..MaxText : ChangeCase(i)

\* Chord strings parsed in either letter case
ParseSpec == ParseInit /\ [][ParseNext]_vars

\* The amounts chord strings are transposed by
Shifts == {0 - 1, 0, 2, MaxSemitones}

\* transpose_chord(chord_str, semitones, prefer_sharp): None or the string
\* of the transposed chord, as <<>> or <<string>>
TransposeChordOf(chord_str, semitones, prefer_sharp) ==
    IF FromStringOf(chord_str) = <<>> THEN <<>>
    ELSE <<ToStringOf(TransposeOf(FromStringOf(chord_str)[1], semitones),
                      prefer_sharp)>>

\* transpose_chord(chord_str, semitones, prefer_sharp) on the newest string
TransposeChord(semitones, prefer_sharp) ==
    /\ texts # <<>>
    /\ Len(chord_log) < MaxChain
    /\ texts' = texts \o TransposeChordOf(texts[Len(texts)], semitones,
                                          prefer_sharp)
    /\ chord_log' = Append(chord_log,
                           Call("transpose_chord", Len(texts),
                                <<semitones, prefer_sharp>>,
                                IF TransposeChordOf(texts[Len(texts)],
                                                    semitones,
                                                    prefer_sharp) = <<>>
                                THEN None ELSE Len(texts) + 1))
    /\ UNCHANGED <<chords, outside_chord>>

TextNext ==
    \/ ChordFromString
    \/ \E semitones \in Shifts, prefer_sharp \in BOOLEAN :
          TransposeChord(semitones, prefer_sharp)

\* Chord strings parsed and transposed
TextSpec == ParseInit /\ [][TextNext]_vars

\* The place of the first blank of a string, one past its end for none
FirstBlank(text) ==
    IF \E i \in 1..Len(text) : text[i] = " "
    THEN CHOOSE i \in 1..Len(text) :
            text[i] = " " /\ \A j \in 1..(i - 1) : text[j] # " "
    ELSE Len(text) + 1

\* str.split(): the runs of characters other than blanks, in order
RECURSIVE Split(_)
Split(text) ==
    IF text = <<>> THEN <<>>
    ELSE IF Head(text) = " " THEN Split(Tail(text))
    ELSE <<SubSeq(text, 1, FirstBlank(text) - 1)>>
         \o Split(SubSeq(text, FirstBlank(text), Len(text)))

\* " ".join(tokens)
RECURSIVE Join(_)
Join(tokens) ==
    IF tokens = <<>> THEN <<>>
    ELSE IF Len(tokens) = 1 THEN tokens[1]
    ELSE tokens[1] \o <<" ">> \o Join(Tail(tokens))

\* A loop that leaves out the tokens that do not parse
TransposeTokenDropping(chord_text, transpose, prefer_sharp) ==
    IF FromStringOf(chord_text) # <<>>
    THEN ToStringOf(TransposeOf(FromStringOf(chord_text)[1], transpose),
                    prefer_sharp)
    ELSE <<>>

\* What the loop of _transpose_chord_string appends for a token: the
\* transposed chord rendered, or the token itself when it does not parse
TransposeToken(chord_text, transpose, prefer_sharp) ==
    IF FromStringOf(chord_text) # <<>>
    THEN ToStringOf(TransposeOf(FromStringOf(chord_text)[1], transpose),
                    prefer_sharp)
    ELSE chord_text

\* Song._transpose_chord_string(chord_str) of a Song with the given
\* _transpose and prefer_notation: None or a string, as <<>> or <<string>>
TransposeChordStringOf(chord_str, transpose, prefer_sharp) ==
    IF chord_str = <<>> THEN <<>>
    ELSE <<Join([n \in 1..Len(Split(chord_str)) |->
                    TransposeToken(Split(chord_str)[n], transpose,
                                   prefer_sharp)])>>

\* Song._transpose_chord_string(chord_str) on the newest string
TransposeChordString(transpose, prefer_sharp) ==
    /\ texts # <<>>
    /\ Len(chord_log) < MaxChain
    /\ texts' = texts \o TransposeChordStringOf(texts[Len(texts)], transpose,
                                                prefer_sharp)
    /\ chord_log' = Append(chord_log,
                           Call("_transpose_chord_string", Len(texts),
                                <<transpose, prefer_sharp>>,
                                IF TransposeChordStringOf(texts[Len(texts)],
                                                          transpose,
                                                          prefer_sharp) = <<>>
                                THEN None ELSE Len(texts) + 1))
    /\ UNCHANGED <<chords, outside_chord>>

ChordStringNext ==
    \E transpose \in Shifts, prefer_sharp \in BOOLEAN :
        TransposeChordString(transpose, prefer_sharp)

\* Strings of several chords transposed
ChordStringSpec == ParseInit /\ [][ChordStringNext]_vars

\* ------------------------------------------------------ Song transposition
\* The chords fields of the entries of a document: None, or a string
ChordsFields ==
    {<<>>, <<<<"C">>>>, <<<<"A", "m", " ", "x">>>>}

\* The entries of a section: dicts with word, start_time, end_time, chords
DocEntries ==
    {<<>>} \cup {<<[word |-> "w", start_time |-> 0, end_time |-> 1,
                    chords |-> c]>> : c \in ChordsFields}

\* The sections of a document that validate_mlc_data accepts: dicts with
\* name, start_time, end_time and entries; the key "order", which is not
\* validated, is there (<<1>>) or not (<<>>).
DocSections ==
    [name : {"verse"}, order : {<<>>, <<1>>}, start_time : {0},
     end_time : {1}, entries : DocEntries]

\* mlc_data["sections"] of the documents
SectionsOfDocuments ==
    UNION {[1..n -> DocSections] : n \in 0..MaxSections}

\* The amounts Songs are transposed by
ViewShifts == {0 - 1, 0, 2}

\* Song._apply_transpose() with the source and the settings given: <<>>
\* when it raises KeyError, else the list it returns, in a tuple. At 0 the
\* list is a deep copy of the source; otherwise each section is made again
\* from section["name"], section["order"], the two times and the entries
\* with their chords transposed.
ApplyTransposeOf(source, transpose, prefer_sharp) ==
    IF transpose = 0 THEN <<source>>
    ELSE IF \E i \in 1..Len(source) : source[i].order = <<>> THEN <<>>
    ELSE <<[i \in 1..Len(source) |->
              [source[i] EXCEPT !.entries =
                  [j \in 1..Len(source[i].entries) |->
                      [source[i].entries[j] EXCEPT !.chords =
                          IF @ = <<>> THEN <<>>
                          ELSE TransposeChordStringOf(@[1], transpose,
                                                      prefer_sharp)]]]]>>

\* The record of a call on a Song
ViewCall(op, on, arg, raised) ==
    [op |-> op, on |-> on, arg |-> arg, raised |-> raised]

\* Song(mlc_data, transpose, prefer_notation = ...): _original_sections is
\* the list of the document itself, sections is what _apply_transpose
\* returns. When that raises, no Song is made.
MakeSong(transpose, prefer_sharp) ==
    /\ lists # <<>>
    /\ Len(views) < MaxViews
    /\ LET made == ApplyTransposeOf(lists[1], transpose, prefer_sharp)
       IN  IF made = <<>>
           THEN /\ view_out' = ViewCall("Song", None, transpose, "KeyError")
                /\ UNCHANGED <<lists, views>>
           ELSE /\ lists' = Append(lists, made[1])
                /\ views' = Append(views,
                                   [_transpose |-> transpose,
                                    prefer_sharp |-> prefer_sharp,
                                    _original_sections |-> 1,
                                    sections |-> Len(lists) + 1])
                /\ view_out' = ViewCall("Song", Len(views) + 1, transpose, "")
    /\ UNCHANGED outside_view

\* song.transpose = value: _transpose is assigned first, then sections is
\* assigned what _apply_transpose returns; when that raises, sections stays
\* as it was.
SetTranspose(s, value) ==
    /\ s \in 1..Len(views)
    /\ LET made == ApplyTransposeOf(lists[views[s]._original_sections], value,
                                    views[s].prefer_sharp)
       IN  /\ views' = [views EXCEPT ![s]._transpose = value]
           /\ IF made = <<>>
              THEN /\ view_out' = ViewCall("transpose", s, value, "KeyError")
                   /\ UNCHANGED lists
              ELSE /\ lists' = [lists EXCEPT ![views[s].sections] = made[1]]
                   /\ view_out' = ViewCall("transpose", s, value, "")
    /\ UNCHANGED outside_view

\* The caller changes song.sections in place: song.sections.clear()
ClearSections(s) ==
    /\ s \in 1..Len(views)
    /\ lists[views[s].sections] # <<>>
    /\ lists' = [lists EXCEPT ![views[s].sections] = <<>>]
    /\ view_out' = ViewCall("clear", s, 0, "")
    /\ UNCHANGED <<views, outside_view>>

\* A document is loaded
ViewInit ==
    /\ QueueInit /\ EditIdle /\ SyncIdle /\ AudioIdle /\ ChordIdle
    /\ MlcIdle
    /\ CastIdle
    /\ lists \in {<<sections>> : sections \in SectionsOfDocuments}
    /\ views = <<>>
    /\ view_out = NoViewCall

ViewNext ==
    \/ \E transpose \in ViewShifts, prefer_sharp \in BOOLEAN :
          MakeSong(transpose, prefer_sharp)
    \/ \E s \in 1..MaxViews, value \in ViewShifts : SetTranspose(s, value)
    \/ \E s \in 1..MaxViews : ClearSections(s)

\* Songs made from one document, transposed and changed
ViewSpec == ViewInit /\ [][ViewNext]_vars

\* ------------------------------------------------------ document validation
\* The fields validate_mlc_data asks for, in the order it asks for them
MetaFields == <<"title", "bpm", "key", "duration">>

SectionFields == <<"name", "start_time", "end_time">>

EntryFields == <<"start_time", "end_time">>

\* The values JSON gives for an entry: a dict with some of the fields, or a
\* value that is no container (a number).
EntryValues ==
    [kind : {"dict"}, keys : SUBSET Range(EntryFields)]
    \cup {[kind |-> "number", keys |-> {}]}

\* The values of section["entries"]: no such key, null, or a list
EntriesValues ==
    {[kind |-> "missing", items |-> <<>>], [kind |-> "null", items |-> <<>>]}
    \cup [kind : {"list"},
          items : UNION {[1..n -> EntryValues] : n \in 0..MaxEntries}]

\* The fields other than entries that the sections of the documents have:
\* all of them, or all but one
SectionKeys ==
    {Range(SectionFields)}
    \cup {Range(SectionFields) \ {f} : f \in Range(SectionFields)}

\* The values JSON gives for a section: a dict, or a number
SectionValues ==
    [kind : {"dict"}, keys : SectionKeys, entries : EntriesValues]
    \cup {[kind |-> "number", keys |-> {},
           entries |-> [kind |-> "missing", items |-> <<>>]]}

\* The values of data["sections"]: no such key, a dict, or a list
SectionsValues ==
    {[kind |-> "missing", items |-> <<>>], [kind |-> "dict", items |-> <<>>]}
    \cup [kind : {"list"},
          items : UNION {[1..n -> SectionValues] : n \in 0..MaxSections}]

\* The values of data["meta"]: no such key, null, or a dict
MetaValues ==
    {[kind |-> "missing", keys |-> {}], [kind |-> "null", keys |-> {}]}
    \cup [kind : {"dict"}, keys : SUBSET Range(MetaFields)]

\* The documents json.load gives and callers pass: dicts
MlcDocuments ==
    [version : BOOLEAN, meta : MetaValues, sections : SectionsValues]

\* The outcomes of validate_mlc_data: (True, None), (False, message), or an
\* exception that leaves it
Valid == [raised |-> "", valid |-> TRUE, error |-> <<>>]

Invalid(message) == [raised |-> "", valid |-> FALSE, error |-> message]

Raised(exception) == [raised |-> exception, valid |-> FALSE, error |-> <<>>]

\* The first place of a sequence of outcomes that is not Valid, 0 for none
FirstNotValid(outcomes) ==
    IF \E n \in 1..Len(outcomes) : outcomes[n] # Valid
    THEN CHOOSE n \in 1..Len(outcomes) :
            outcomes[n] # Valid /\ \A k \in 1..(n - 1) : outcomes[k] = Valid
    ELSE 0

\* The outcome of the first check that does not pass
FirstOf(outcomes) ==
    IF FirstNotValid(outcomes) = 0 THEN Valid
    ELSE outcomes[FirstNotValid(outcomes)]

\* The two tests on entry j of section i; `in` raises TypeError on a number.
ValidateEntry(i, j, entry) ==
    IF entry.kind # "dict" THEN Raised("TypeError")
    ELSE FirstOf([f \in 1..Len(EntryFields) |->
                     IF EntryFields[f] \in entry.keys THEN Valid
                     ELSE Invalid(<<"section", i, "entry", j, "missing",
                                    EntryFields[f]>>)])

\* The body of the loop over the sections, for section i: the four tests,
\* then the loop over section["entries"]; `in` raises TypeError on a number
\* and enumerate raises TypeError on None.
ValidateSection(i, section) ==
    IF section.kind # "dict" THEN Raised("TypeError")
    ELSE FirstOf([f \in 1..Len(SectionFields) |->
                     IF SectionFields[f] \in section.keys THEN Valid
                     ELSE Invalid(<<"section", i, "missing",
                                    SectionFields[f]>>)]
                 \o <<IF section.entries.kind = "missing"
                      THEN Invalid(<<"section", i, "missing", "entries">>)
                      ELSE IF section.entries.kind = "null"
                           THEN Raised("TypeError")
                           ELSE Valid>>
                 \o [j \in 1..Len(section.entries.items) |->
                        ValidateEntry(i, j - 1, section.entries.items[j])])

\* MLCFormat.validate_mlc_data(data)
ValidateMlcDataOf(data) ==
    IF ~data.version THEN Invalid(<<"missing", "version">>)
    ELSE IF data.meta.kind = "missing" THEN Invalid(<<"missing", "meta">>)
    ELSE IF data.meta.kind # "dict" THEN Raised("TypeError")
    ELSE IF FirstOf([f \in 1..Len(MetaFields) |->
                        IF MetaFields[f] \in data.meta.keys THEN Valid
                        ELSE Invalid(<<"missing", "meta", MetaFields[f]>>)])
            # Valid
    THEN FirstOf([f \in 1..Len(MetaFields) |->
                     IF MetaFields[f] \in data.meta.keys THEN Valid
                     ELSE Invalid(<<"missing", "meta", MetaFields[f]>>)])
    ELSE IF data.sections.kind = "missing"
    THEN Invalid(<<"missing", "sections">>)
    ELSE IF data.sections.kind # "list"
    THEN Invalid(<<"sections", "must be a list">>)
    ELSE FirstOf([i \in 1..Len(data.sections.items) |->
                     ValidateSection(i - 1, data.sections.items[i])])

\* The record of a call on MLCFormat: what validate_mlc_data gave, the
\* exception that left the call, and whether the call did its work
MlcCall(op, outcome, raised, done) ==
    [op |-> op, raised |-> raised, valid |-> outcome.valid,
     error |-> outcome.error, done |-> done]

\* MLCFormat.validate_mlc_data(data) on the document
ValidateMlcData ==
    /\ mlc_out' = MlcCall("validate_mlc_data", ValidateMlcDataOf(mlc),
                          ValidateMlcDataOf(mlc).raised,
                          ValidateMlcDataOf(mlc).raised = "")
    /\ UNCHANGED <<mlc, outside_mlc>>

\* What leaves save_to_file and load_from_file: the exception of
\* validate_mlc_data, ValueError when the document is not valid, or nothing
RaisedAfter(outcome) ==
    IF outcome.raised # "" THEN outcome.raised
    ELSE IF ~outcome.valid THEN "ValueError" ELSE ""

\* MLCFormat.save_to_file(data, file_path) with the document: the file is
\* written when nothing is raised.
SaveToFile ==
    /\ mlc_out' = MlcCall("save_to_file", ValidateMlcDataOf(mlc),
                          RaisedAfter(ValidateMlcDataOf(mlc)),
                          RaisedAfter(ValidateMlcDataOf(mlc)) = "")
    /\ UNCHANGED <<mlc, outside_mlc>>

\* MLCFormat.load_from_file(file_path) of the file that holds the document:
\* the data is returned when nothing is raised.
LoadFromFile ==
    /\ mlc_out' = MlcCall("load_from_file", ValidateMlcDataOf(mlc),
                          RaisedAfter(ValidateMlcDataOf(mlc)),
                          RaisedAfter(ValidateMlcDataOf(mlc)) = "")
    /\ UNCHANGED <<mlc, outside_mlc>>

\* A document, given by a caller or read from a file
MlcInit ==
    /\ QueueInit /\ EditIdle /\ SyncIdle /\ AudioIdle /\ ChordIdle
    /\ ViewIdle
    /\ CastIdle
    /\ mlc \in MlcDocuments
    /\ mlc_out = NoMlcCall

MlcNext == ValidateMlcData \/ SaveToFile \/ LoadFromFile

\* Documents validated, saved and loaded
MlcSpec == MlcInit /\ [][MlcNext]_vars

\* ------------------------------------- WebSocketManager: broadcasts in flight
\* A call of broadcast(message): the connection whose send_text it awaits,
\* the position of the iterator of `for connection in self.active_connections`,
\* its list `disconnected`, the connections whose send_text returned, the
\* connections that were registered when it was called, and whether it has
\* returned.
NewCast ==
    [current |-> None, index |-> 0, disconnected |-> <<>>, received |-> <<>>,
     at_start |-> Range(active_connections), pc |-> "sending"]

\* The list iterator has another item: its position is inside the list as
\* the list is now.
HasNext(cast) == cast.index < Len(active_connections)

\* The next turn of the loop of broadcast: the iterator gives the item at its
\* position and send_text is awaited.
NextSend(cast) ==
    [cast EXCEPT !.current = active_connections[cast.index + 1],
                 !.index = @ + 1]

\* The calls of broadcast with call k, a new one or not, now at `cast`
Put(k, cast) ==
    IF k > Len(casts) THEN Append(casts, cast) ELSE [casts EXCEPT ![k] = cast]

\* The loop of call k, which is at `cast`, goes on, or is over: then
\* disconnect() is called for each connection of `disconnected`, and
\* broadcast returns.
Proceed(k, cast) ==
    IF HasNext(cast)
    THEN /\ casts' = Put(k, NextSend(cast))
         /\ UNCHANGED <<active_connections, gone>>
    ELSE /\ casts' = Put(k, [cast EXCEPT !.current = None, !.pc = "done"])
         /\ active_connections' =
                SelectSeq(active_connections,
                          LAMBDA c : c \notin Range(cast.disconnected))
         /\ gone' = gone \cup (Range(cast.disconnected)
                                 \cap Range(active_connections))

\* broadcast(message) is called and runs up to its first await.
StartBroadcast ==
    /\ Len(casts) < MaxCasts
    /\ Proceed(Len(casts) + 1, NewCast)
    /\ UNCHANGED outside_cast

\* The send_text that call k of broadcast awaits returns or raises, and the
\* call runs up to its next await or to its end.
ResumeBroadcast(k, raises) ==
    /\ k \in 1..Len(casts)
    /\ casts[k].pc = "sending"
    /\ Proceed(k, IF raises
                  THEN [casts[k] EXCEPT
                           !.disconnected = Append(@, casts[k].current)]
                  ELSE [casts[k] EXCEPT
                           !.received = Append(@, casts[k].current)])
    /\ UNCHANGED outside_cast

\* connect(websocket) of a websocket the endpoint has accepted: each
\* connection is a new WebSocket object.
Register(c) ==
    /\ c \notin Range(active_connections)
    /\ c \notin gone
    /\ active_connections' = Append(active_connections, c)
    /\ UNCHANGED <<casts, gone, outside_cast>>

\* disconnect(websocket), by the endpoint on WebSocketDisconnect
Unregister(c) ==
    /\ c \in Range(active_connections)
    /\ active_connections' = SelectSeq(active_connections, LAMBDA d : d # c)
    /\ gone' = gone \cup {c}
    /\ UNCHANGED <<casts, outside_cast>>

CastNext ==
    \/ StartBroadcast
    \/ \E k \in 1..MaxCasts, raises \in BOOLEAN : ResumeBroadcast(k, raises)
    \/ \E c \in ConnIds : Register(c)
    \/ \E c \in ConnIds : Unregister(c)

\* Broadcasts that run while connections are registered and unregistered
CastSpec == Init /\ [][CastNext]_vars

\* ================================================================ claims
Commands == {"play_current", "next_song", "previous_song", "jump_to_song"}

\* The song at position k of the playback order
SongAt(k) ==
    setlist.songs[(IF shuffle_order = <<>> THEN k ELSE shuffle_order[k + 1]) + 1]

\* ------------------------------------------------------------------- C1
\* C1: with autoAdvance enabled, at most one monitor task is live after any
\* sequence of commands, play_current twice in succession included.
C1_SingleMonitor == setlist.auto_advance => LiveCount <= 1

\* ------------------------------------------------------------------- C2
\* The step is a command that cancels the monitor the handle refers to while
\* that monitor is suspended.
CancelsSuspended ==
    /\ Live(auto_advance_task)
    /\ \/ last'.op = "stop"
       \/ last'.op = "next_song" /\ setlist.loaded
       \/ last'.op = "previous_song" /\ setlist.loaded /\ current_index > 0
       \/ /\ last'.op = "jump_to_song" /\ setlist.loaded
          /\ last'.arg >= 0 /\ last'.arg < Len(setlist.songs)

\* What the command itself does to current_index
CommandIndex ==
    CASE last'.op = "stop" -> current_index
      [] last'.op = "previous_song" -> current_index - 1
      [] last'.op = "jump_to_song" -> last'.arg
      [] OTHER -> IF current_index + 1 >= Len(setlist.songs) /\ setlist.loop
                  THEN 0 ELSE current_index + 1

\* C2: a command (stop, next_song, previous_song with index > 0, in-range
\* jump_to_song) that cancels the tracked monitor in its poll, countdown or
\* gap sleep ends it in that step: afterwards the handle is empty or refers
\* to a task created by the command, no task has been left running without a
\* handle, the step broadcasts no gap_countdown, and current_index is what
\* the command sets.
C2_CancelEffective ==
    [][CancelsSuspended =>
          /\ auto_advance_task'.pc \in {"none", "created"}
          /\ orphans' = orphans
          /\ sink'.type # "gap_countdown"
          /\ current_index' = CommandIndex]_vars

\* C2 witness: a command has cancelled a monitor that was in its gap sleep.
C2_Witness ==
    /\ last.op \in {"stop", "next_song", "previous_song", "jump_to_song"}
    /\ last.cancelled = "gap_sleep"
    /\ orphans = EmptyBag

\* ------------------------------------------------------------------- C3
\* C3: after load_setlist, current_index = 0 and is_playing = false until
\* the next command; no monitor started before the load changes them.
C3_LoadResets == quiet = "load" => current_index = 0 /\ ~is_playing

\* ------------------------------------------------------------------- C4
\* C4: whenever a non-empty setlist is loaded, 0 <= current_index <
\* len(songs).
C4_IndexInRange ==
    setlist.loaded /\ Len(setlist.songs) > 0
        => current_index >= 0 /\ current_index < Len(setlist.songs)

\* ------------------------------------------------------------------- C5
\* C5: after an advance at the last song of a setlist with loop = false, by
\* a user's next_song or by the monitor, is_playing is false and
\* setlist_finished has been delivered to the connected observers.
C5_FinishedDelivered ==
    /\ last.op \in {"next_song", "advance"}
    /\ setlist.loaded /\ ~setlist.loop
    /\ Len(setlist.songs) > 0 /\ current_index = Len(setlist.songs)
    => /\ ~is_playing
       /\ sink.type = "setlist_finished"
       /\ Range(active_connections) \subseteq sink.to

\* ------------------------------------------------------------------- C6
\* C6: stop() sets is_playing = false and leaves current_index unchanged,
\* and neither changes until the next command, whatever the monitors do.
C6_StopQuiescent ==
    [][quiet' = "stop" => ~is_playing' /\ current_index' = current_index]_vars

\* ------------------------------------------------------------------- C7
\* C7: the monitor's next_song happens gap_seconds after it observed the
\* threshold, within one poll interval, with and without countdown.
C7_AdvanceAfterGap ==
    last.op = "advance" =>
        /\ last.elapsed >= last.seen.gap * TicksPerSecond - 1
        /\ last.elapsed <= last.seen.gap * TicksPerSecond + 1

\* ------------------------------------------------------------------- C8
\* The gap_countdown messages of monitor t are the first ones of
\* gap_seconds, gap_seconds - 1, ..., 1, one second apart, all with the same
\* next song.
CountdownSoFar(t) ==
    /\ Len(t.emitted) <= t.seen.gap
    /\ \A i \in 1..Len(t.emitted) :
          /\ t.emitted[i].remaining = t.seen.gap - (i - 1)
          /\ t.emitted[i].at = (i - 1) * TicksPerSecond
          /\ t.emitted[i].next_song = t.emitted[1].next_song

\* What get_next_song has to return, in the words of the claim
ExpectedNext ==
    IF current_index + 1 < Len(setlist.songs) THEN SongAt(current_index + 1)
    ELSE IF setlist.loop THEN SongAt(0)
    ELSE None

\* C8: a monitor that saw the threshold with countdown enabled broadcasts
\* gap_countdown with remaining = gap_seconds, ..., 1 in that order, one
\* second apart, and has broadcast exactly gap_seconds of them when it
\* enters its gap wait (none for gap_seconds = 0); each carries the song
\* get_next_song returned at the threshold; a monitor that did not see the
\* threshold, or saw it with countdown disabled, broadcasts none.
C8_CountdownSequence ==
    /\ [](\A t \in LiveTasks :
            /\ CountdownSoFar(t)
            /\ t.pc = "countdown_sleep" =>
                  t.seen.countdown /\ Len(t.emitted) = t.step /\ t.step >= 1
            /\ t.pc = "gap_sleep" =>
                  Len(t.emitted) = (IF t.seen.countdown THEN t.seen.gap ELSE 0)
            /\ t.pc \in {"created", "poll_sleep"} => t.emitted = <<>>)
    /\ [][last'.op = "poll" /\ Len(setlist.songs) > 0 =>
            \A t \in LiveTasks' \ LiveTasks :
               t.emitted # <<>> => t.emitted[1].next_song = ExpectedNext]_vars

\* C8 witness: a monitor has entered its gap wait after a countdown of the
\* largest gap that named a next song.
C8_Witness ==
    \E t \in LiveTasks :
       /\ t.pc = "gap_sleep"
       /\ Len(t.emitted) = MaxGap
       /\ t.emitted[1].next_song # None

\* ------------------------------------------------------------------- C9
\* C9: in a setlist with songs, get_next_song is the song at logical index
\* current_index + 1 when there is one, else the song at logical index 0
\* with loop and nothing without; an advance makes the current song what
\* get_next_song returned before it, and at the last song with loop it sets
\* current_index to 0.
C9_LoopBoundary ==
    /\ [](setlist.loaded /\ Len(setlist.songs) > 0 => GetNextSong = ExpectedNext)
    /\ [][/\ last'.op \in {"next_song", "advance"}
          /\ setlist.loaded /\ Len(setlist.songs) > 0
          => /\ GetCurrentSongIn(setlist', shuffle_order', current_index')
                  = ExpectedNext
             /\ current_index = Len(setlist.songs) - 1 /\ setlist.loop
                  => current_index' = 0]_vars

\* C9 witness: next_song has wrapped a looping setlist of several songs in
\* shuffled order to its first song.
C9_Witness ==
    /\ last.op = "next_song"
    /\ setlist.loop /\ setlist.shuffle
    /\ Len(setlist.songs) = MaxSongs
    /\ current_index = 0
    /\ GetCurrentSong = SongAt(0)

\* ------------------------------------------------------------------ C10
\* The step is a navigation command that finds nothing to navigate to.
OutOfRange ==
    \/ last'.op \in Commands /\ ~setlist.loaded
    \/ last'.op = "jump_to_song"
          /\ (last'.arg < 0 \/ last'.arg >= Len(setlist.songs))
    \/ last'.op = "previous_song" /\ current_index = 0

\* C10: jump_to_song outside 0..len(songs)-1, previous_song at index 0 and
\* navigation without a setlist leave current_index, is_playing,
\* shuffle_order and the monitors as they are; get_previous_song is nothing
\* at index 0, loop or not.
C10_OutOfRangeNoOp ==
    /\ [](current_index = 0 => GetPreviousSong = None)
    /\ [][OutOfRange =>
            UNCHANGED <<setlist, current_index, is_playing, shuffle_order,
                        auto_advance_task, orphans>>]_vars

\* C10 witness: a jump to len(songs) has left a playing, looping setlist with
\* its monitor in the gap sleep.
C10_Witness ==
    /\ last.op = "jump_to_song"
    /\ setlist.loaded /\ setlist.loop
    /\ last.arg = Len(setlist.songs)
    /\ is_playing
    /\ auto_advance_task.pc = "gap_sleep"

\* ------------------------------------------------------------------ C11
\* C11: after load_setlist, shuffle_order is empty without settings.shuffle
\* and otherwise an arrangement of 0..len(songs)-1; only a load changes it (a
\* loop wrap does not); get_actual_index is the identity when unshuffled and
\* shuffle_order[logical] when shuffled, so the logical indexes of one lap
\* name every song exactly once.
C11_ShuffleOrder ==
    /\ [](setlist.loaded =>
            /\ IF setlist.shuffle
               THEN /\ Len(shuffle_order) = Len(setlist.songs)
                    /\ Range(shuffle_order) = 0..(Len(setlist.songs) - 1)
               ELSE shuffle_order = <<>>
            /\ \A k \in 0..(Len(setlist.songs) - 1) :
                  GetActualIndex(k) = IF setlist.shuffle THEN shuffle_order[k + 1]
                                      ELSE k
            /\ \A i \in 0..(Len(setlist.songs) - 1) :
                  Cardinality({k \in 0..(Len(setlist.songs) - 1) :
                                  GetActualIndex(k) = i}) = 1)
    /\ [][last'.op # "load_setlist" => shuffle_order' = shuffle_order]_vars

\* C11 witness: an advance has wrapped a looping setlist whose shuffled order
\* is not the order of the list.
C11_Witness ==
    /\ last.op \in {"next_song", "advance"}
    /\ setlist.loop /\ setlist.shuffle
    /\ current_index = 0
    /\ \E k \in 1..Len(shuffle_order) : shuffle_order[k] # k - 1

\* ------------------------------------------------------------------ C12
RECURSIVE SumOf(_, _)
\* The summed durations of the songs at the positions P of a list
SumOf(songs, P) ==
    IF P = {} THEN 0
    ELSE LET i == CHOOSE i \in P : TRUE
         IN  SongDuration[songs[i]] + SumOf(songs, P \ {i})

\* The summed durations of the songs at the positions P of the loaded setlist
SumAt(P) == SumOf(setlist.songs, P)

\* C12: for a loaded setlist, get_progress reports elapsed_time = the summed
\* durations of the songs strictly before current_index plus current_index *
\* gap_seconds; durations 180, 240, 200 with gap 5 at index 2 give 430.
C12_ElapsedTime ==
    /\ setlist.loaded =>
          GetProgress.elapsed_time =
              SumAt({i \in 1..Len(setlist.songs) : i - 1 < current_index})
              + current_index * setlist.gap_seconds
    /\ GetProgressIn([NoSetlist EXCEPT !.loaded = TRUE, !.songs = <<1, 2, 3>>,
                                       !.gap_seconds = 5], 2).elapsed_time = 430

\* C12 witness: a setlist update has been broadcast past the first song of a
\* setlist with a gap.
C12_Witness ==
    /\ sink.type = "setlist_update"
    /\ setlist.loaded /\ setlist.gap_seconds > 0
    /\ current_index >= 1 /\ current_index < Len(setlist.songs)

\* ------------------------------------------------------------------ C14
\* C14: a poll in which get_position or get_duration raises does not end the
\* monitor, and the failure is broadcast as an error event.
C14_PollFailureSurvived ==
    [][last'.op = "poll_failed" =>
          LiveCount' = LiveCount /\ sink'.type = "error"]_vars

C13_TotalDuration ==
    /\ editing.loaded =>
          TotalDuration(editing) =
              LET count == Len(editing.songs)
              IN  IF count = 0 THEN 0
                  ELSE IF count = 1 THEN SongDuration[editing.songs[1]]
                  ELSE SumOf(editing.songs, 1..count)
                       + (count - 1) * editing.gap_seconds
    /\ TotalDuration([NoSetlist EXCEPT !.loaded = TRUE, !.songs = <<1, 2, 3>>,
                                       !.gap_seconds = 5]) = 630

\* C13 witness: remove_song has taken a song out of a Setlist with a gap and
\* has left several songs.
C13_Witness ==
    /\ edit.op = "remove_song" /\ edit.returned # None
    /\ Len(editing.songs) > 1
    /\ editing.gap_seconds > 0

\* The places <<section, entry>> of the entries of the song of the engine
Places ==
    {p \in (1..Len(sync.song.sections)) \X (1..MaxItems) :
        p[2] <= Len(sync.song.sections[p[1]].entries)}

\* The places whose section and whose entry both contain time t
PlacesAt(t) ==
    {p \in Places :
        /\ sync.song.sections[p[1]].start_time <= t
        /\ t <= sync.song.sections[p[1]].end_time
        /\ sync.song.sections[p[1]].entries[p[2]].start_time <= t
        /\ t <= sync.song.sections[p[1]].entries[p[2]].end_time}

\* Place p comes no later than place q, in section order then entry order
Before(p, q) == p[1] < q[1] \/ (p[1] = q[1] /\ p[2] <= q[2])

\* The last call was get_entry_at_time.
Queried == sync_out.op = "get_entry_at_time"

\* C20: get_entry_at_time(t) returns the first entry, in section order then
\* entry order, whose section and whose own range contain t, together with
\* the name of that section, and nothing when no entry does; the call leaves
\* the song and the engine as they were, and a second call with the same t
\* returns an equal entry.
C20_EntryAtTime ==
    /\ [](Queried =>
            IF PlacesAt(sync_out.arg) = {}
            THEN sync_out.returned = NoEntry
            ELSE \E p \in PlacesAt(sync_out.arg) :
                    /\ \A q \in PlacesAt(sync_out.arg) : Before(p, q)
                    /\ sync_out.returned.word
                         = sync.song.sections[p[1]].entries[p[2]].word
                    /\ sync_out.returned.start_time
                         = sync.song.sections[p[1]].entries[p[2]].start_time
                    /\ sync_out.returned.end_time
                         = sync.song.sections[p[1]].entries[p[2]].end_time
                    /\ sync_out.returned.section
                         = sync.song.sections[p[1]].name)
    /\ [][/\ Queried' => sync' = sync
          /\ (Queried /\ Queried' /\ sync_out'.arg = sync_out.arg)
               => sync_out'.returned = sync_out.returned]_vars

\* A query at a time that two entries contain returned the first of them.
C20_Witness ==
    /\ Queried
    /\ \E p, q \in PlacesAt(sync_out.arg) : p # q
    /\ sync_out.returned # NoEntry

\* The step is a call of update: it is recorded as the last call, and no
\* callback was registered by it.
UpdateStep ==
    /\ sync_out'.op = "update"
    /\ sync'.on_entry_change = sync.on_entry_change
    /\ sync'.on_section_change = sync.on_section_change
    /\ sync'.on_beat = sync.on_beat

\* C17: with the callbacks registered, update(position) calls the
\* entry-change callback exactly when the entry at position differs from the
\* recorded one, the change to no entry included, and records the entry at
\* position; likewise for the section.
C17_EveryChangeEmitted ==
    [][UpdateStep =>
        /\ sync'.current_entry = GetEntryAtTimeOf(sync.song, sync_out'.arg)
        /\ sync'.current_section = GetSectionAtTimeOf(sync.song, sync_out'.arg)
        /\ sync.on_entry_change =>
              (sync_out'.entry_events # <<>>
                 <=> sync'.current_entry # sync.current_entry)
        /\ sync.on_section_change =>
              (sync_out'.section_events # <<>>
                 <=> sync'.current_section # sync.current_section)]_vars

\* C18: update(position) returns without raising for every song built from
\* a document that passes validate_mlc_data, whatever the bpm in its meta,
\* and records the first entry, in section order then entry order, whose
\* section and range contain the position.
C18_UpdateNeverRaises ==
    sync_out.op = "update" =>
        /\ ~sync_out.raised
        /\ \A p \in PlacesAt(sync_out.arg) :
              (\A q \in PlacesAt(sync_out.arg) : Before(p, q))
                 => sync.current_entry
                      = EntryOf(sync.song.sections, p[1], p[2])

\* The value update passes to the entry-change callback for the entry at p
EntryValue(p) == EntryOf(sync.song.sections, p[1], p[2])

\* The entry at place p, as the document gives it
EntryAt(p) == sync.song.sections[p[1]].entries[p[2]]

\* Two ranges have no instant in common.
Apart(a, b) == a.end_time < b.start_time \/ b.end_time < a.start_time

\* Two ranges have at most a boundary instant in common.
Touching(a, b) == a.end_time <= b.start_time \/ b.end_time <= a.start_time

\* The updates of the run from its k-th on all lie inside the range of x.
Inside(k, x) ==
    /\ x.start_time <= run[k].position
    /\ run[Len(run)].position <= x.end_time

\* The updates from the k-th on that called the entry-change callback
EntryCalls(k) == {m \in k..Len(run) : run[m].entry_events # <<>>}

\* The updates from the k-th on that called the section-change callback
SectionCalls(k) == {m \in k..Len(run) : run[m].section_events # <<>>}

\* C16 as stated: updates with strictly increasing positions that all lie
\* inside the range of one entry call the entry-change callback at most
\* once; likewise for the section-change callback inside one section.
C16_NoDuplicates ==
    \A k \in 1..Len(run) :
        /\ \A p \in Places :
              Inside(k, EntryAt(p)) => Cardinality(EntryCalls(k)) <= 1
        /\ \A i \in 1..Len(sync.song.sections) :
              Inside(k, sync.song.sections[i])
                 => Cardinality(SectionCalls(k)) <= 1

\* C16, amended: updates with strictly increasing positions that all lie
\* inside the range of one entry call the entry-change callback at most
\* once when no other entry of the song has an instant in common with that
\* entry; when other entries have at most a boundary instant in common
\* with it, they call the callback at most once with that entry, on the
\* first update whose position resolves to it. Likewise for the
\* section-change callback and the sections of the song.
C16_NoDuplicatesApart ==
    \A k \in 1..Len(run) :
        /\ \A p \in Places :
              Inside(k, EntryAt(p)) =>
                /\ (\A q \in Places \ {p} : Apart(EntryAt(p), EntryAt(q)))
                      => Cardinality(EntryCalls(k)) <= 1
                /\ (\A q \in Places \ {p} : Touching(EntryAt(p), EntryAt(q)))
                      => \A m, n \in k..Len(run) :
                            (/\ m < n
                             /\ GetEntryAtTimeOf(sync.song, run[m].position)
                                  = EntryValue(p))
                               => run[n].entry_events # <<EntryValue(p)>>
        /\ \A i \in 1..Len(sync.song.sections) :
              Inside(k, sync.song.sections[i]) =>
                /\ (\A j \in 1..Len(sync.song.sections) \ {i} :
                        Apart(sync.song.sections[i], sync.song.sections[j]))
                      => Cardinality(SectionCalls(k)) <= 1
                /\ (\A j \in 1..Len(sync.song.sections) \ {i} :
                        Touching(sync.song.sections[i], sync.song.sections[j]))
                      => \A m, n \in k..Len(run) :
                            (/\ m < n
                             /\ GetSectionAtTimeOf(sync.song, run[m].position)
                                  = sync.song.sections[i])
                               => run[n].section_events
                                    # <<sync.song.sections[i]>>

\* Three updates inside an entry that another entry touches at its end:
\* the first called the callback with the entry, the second did not, the
\* third called it with the other entry.
C16_Witness ==
    /\ Len(run) = 3
    /\ \E p, q \in Places :
          /\ p # q
          /\ Inside(1, EntryAt(p))
          /\ Places = {p, q}
          /\ Touching(EntryAt(p), EntryAt(q))
          /\ run[1].entry_events = <<EntryValue(p)>>
          /\ run[2].entry_events = <<>>
          /\ run[3].entry_events = <<EntryValue(q)>>

\* ------------------------------------------------------------------ C19
\* The step is a call of a position callback by the tracking thread.
CallStep == Len(tick'.called) = Len(tick.called) + 1

\* C19: a position callback that raises does not stop the loop of the
\* tracking thread. The thread goes on to the next callback of the tick
\* after every call, raising or not; it ends only at the test of its loop,
\* when the engine was told to stop tracking or is not playing; when a
\* callback raised in this tick or an earlier one and the engine has stayed
\* playing, the test starts another tick; and a tick the thread completes
\* has called every callback of the list, in order, the list being left
\* alone during the tick.
C19_RaisingCallbackIsolated ==
    /\ [][/\ CallStep =>
               /\ audio'.update_thread = "calling"
               /\ audio'.index = audio.index + 1
               /\ tick'.called[Len(tick'.called)]
                    = audio.position_callbacks[audio.index + 1]
          /\ (audio'.update_thread = "ended" /\ audio.update_thread # "ended")
               => /\ audio.update_thread = "test"
                  /\ audio.stop_update \/ ~audio.is_playing
          /\ (/\ audio.update_thread = "test"
              /\ audio'.update_thread # "test"
              /\ tick.raised # {} \/ tick.raised_before
              /\ audio.is_playing /\ ~audio.stop_update)
               => audio'.update_thread = "calling" /\ audio'.index = 0]_vars
    /\ [](audio.update_thread = "sleep" /\ ~tick.changed
            => tick.called = audio.position_callbacks)

\* The tracking thread completed a tick with two callbacks of which the
\* first raised, after an earlier tick in which a callback raised as well.
C19_Witness ==
    /\ audio.update_thread = "sleep"
    /\ ~tick.changed
    /\ Len(audio.position_callbacks) = MaxCallbacks
    /\ tick.called = audio.position_callbacks
    /\ 1 \in tick.raised
    /\ tick.raised_before

\* ------------------------------------------------------------------ C21
\* The last call was get_upcoming_entries.
AskedUpcoming == sync_out.op = "get_upcoming_entries"

\* The sections are ordered by start_time and the entries lie inside their
\* section.
OrderedSong ==
    /\ \A i, j \in 1..Len(sync.song.sections) :
          i < j => sync.song.sections[i].start_time
                     <= sync.song.sections[j].start_time
    /\ \A p \in Places :
          /\ sync.song.sections[p[1]].start_time <= EntryAt(p).start_time
          /\ EntryAt(p).end_time <= sync.song.sections[p[1]].end_time

\* The places of the entries that start in the window of the last call
PlacesAhead ==
    {p \in Places :
        /\ sync.current_position <= EntryAt(p).start_time
        /\ EntryAt(p).start_time <= sync.current_position + sync_out.arg}

\* C21: for a song whose sections are ordered by start_time and whose
\* entries lie inside their section, get_upcoming_entries(lookahead) returns
\* exactly the entries whose start_time lies in
\* [current_position, current_position + lookahead], each with the name of
\* its section, in section order then entry order; the call changes nothing
\* of the engine, and a repeated call returns the same list.
C21_UpcomingEntries ==
    /\ []((AskedUpcoming /\ OrderedSong) =>
            /\ Len(sync_out.upcoming) = Cardinality(PlacesAhead)
            /\ \E f \in [1..Len(sync_out.upcoming) -> PlacesAhead] :
                  /\ \A i \in DOMAIN f : sync_out.upcoming[i] = EntryValue(f[i])
                  /\ \A i, j \in DOMAIN f :
                        i < j => (f[i] # f[j] /\ Before(f[i], f[j])))
    /\ [][/\ AskedUpcoming' => sync' = sync
          /\ (AskedUpcoming /\ AskedUpcoming' /\ sync_out'.arg = sync_out.arg)
               => sync_out'.upcoming = sync_out.upcoming]_vars

\* A call in the middle of an ordered song returned one of its two entries
\* and left out the one that started before the position.
C21_Witness ==
    /\ AskedUpcoming
    /\ OrderedSong
    /\ sync.current_position > 0
    /\ Len(sync_out.upcoming) = 1
    /\ Cardinality(Places) = 2

\* ------------------------------------------------------------------ C22
\* The step is a call of reset: only reset writes a new record of a reset.
ResetStep == sync_out'.op = "reset" /\ sync_out' # sync_out

\* The step is the first update after a reset.
UpdateAfterReset == sync_out.op = "reset" /\ sync_out'.op = "update"

\* C22: reset() clears the recorded entry, section, beat index, last beat
\* time and position and leaves the song and the registered callbacks as
\* they were; the next update at a position inside an entry calls the
\* registered entry-change and section-change callbacks with the entry and
\* the section at that position, whatever was recorded before the reset.
C22_ResetClears ==
    [][/\ ResetStep =>
           /\ sync'.current_entry = NoEntry
           /\ sync'.current_section = NoSection
           /\ sync'.current_beat = 0
           /\ sync'.last_beat_time = 0
           /\ sync'.current_position = 0
           /\ sync'.song = sync.song
           /\ sync'.on_entry_change = sync.on_entry_change
           /\ sync'.on_section_change = sync.on_section_change
           /\ sync'.on_beat = sync.on_beat
       /\ (UpdateAfterReset
           /\ GetEntryAtTimeOf(sync.song, sync_out'.arg) # NoEntry) =>
           /\ sync.on_entry_change =>
                 sync_out'.entry_events
                   = <<GetEntryAtTimeOf(sync.song, sync_out'.arg)>>
           /\ sync.on_section_change =>
                 sync_out'.section_events
                   = <<GetSectionAtTimeOf(sync.song, sync_out'.arg)>>]_vars

\* The first update after a reset called the entry-change callback with the
\* entry that was recorded when reset was called, and the section-change
\* callback as well.
C22_Witness ==
    /\ sync_out.op = "update"
    /\ sync_out.cleared # NoEntry
    /\ sync_out.entry_events = <<sync_out.cleared>>
    /\ sync_out.section_events # <<>>

\* ------------------------------------------------------------------ C24
\* C24: transposing a chord by m and the result by n gives a chord with
\* the root, suffix and bass of the chord transposed by (m + n) mod 12, for
\* negative m and n as well; transposing by 12 gives a chord with the
\* root, suffix and bass of the chord itself.
C24_GroupAction ==
    /\ Len(chord_log) = 2 =>
          chords[3] = TransposeOf(chords[1],
                                  (chord_log[1].arg + chord_log[2].arg) % 12)
    /\ (Len(chord_log) >= 1 /\ chord_log[1].arg = 12) =>
          chords[2] = chords[1]

\* A slash chord was transposed down and then up, down in sum.
C24_Witness ==
    /\ Len(chord_log) = 2
    /\ chord_log[1].arg < 0
    /\ chord_log[2].arg > 0
    /\ chord_log[1].arg + chord_log[2].arg < 0
    /\ chords[1].bass # <<>>
    /\ chords[3] # chords[1]

\* ------------------------------------------------------------------ C28
\* C28: transpose(n) returns a new chord whose root, and bass when there
\* is one, is in 0..11, whose suffix is the suffix of the original, and
\* whose bass is absent exactly when the original has none, a bass of
\* value 0 being kept; the chords made before stay as they were.
C28_TransposeFrame ==
    /\ [](\A k \in 1..Len(chord_log) :
            chord_log[k].op = "transpose" =>
              /\ chord_log[k].returned # chord_log[k].on
              /\ chords[chord_log[k].returned].root \in 0..11
              /\ \A i \in 1..Len(chords[chord_log[k].returned].bass) :
                    chords[chord_log[k].returned].bass[i] \in 0..11
              /\ chords[chord_log[k].returned].suffix
                   = chords[chord_log[k].on].suffix
              /\ Len(chords[chord_log[k].returned].bass)
                   = Len(chords[chord_log[k].on].bass))
    /\ [][\A i \in 1..Len(chords) : chords'[i] = chords[i]]_vars

\* A chord with the bass C was transposed down and kept a bass.
C28_Witness ==
    /\ Len(chord_log) >= 1
    /\ chord_log[1].arg < 0
    /\ chords[1].bass = <<0>>
    /\ chords[1].suffix # <<>>
    /\ chords[2].bass # <<>>

\* ------------------------------------------------------------------ C25
\* A chord was rendered with sharps and the string was parsed.
RenderedAndParsed ==
    /\ Len(chord_log) >= 2
    /\ chord_log[1].op = "to_string" /\ chord_log[1].arg = TRUE
    /\ chord_log[2].op = "from_string"

\* C25: for every chord with a slash-free suffix, a suffix that begins with
\* "b" or "#" included, parsing its rendering with sharps gives a chord,
\* and rendering that chord with sharps gives the same string.
C25_RoundTrip ==
    RenderedAndParsed =>
        /\ chord_log[2].returned # None
        /\ (/\ Len(chord_log) = 3
            /\ chord_log[3].op = "to_string" /\ chord_log[3].arg = TRUE)
             => texts[2] = texts[1]

\* ------------------------------------------------------------------ C26
\* The place of the first character of a string that is not a blank
FirstLetter(text) ==
    CHOOSE i \in 1..Len(text) :
        text[i] # " " /\ \A j \in 1..(i - 1) : text[j] = " "

\* The places of the root letter and of the bass letter of a string that
\* parsed to the chord
LetterPlaces(text, chord) ==
    {FirstLetter(text)}
    \cup (IF chord.bass # <<>> THEN {FirstSlash(text) + 1} ELSE {})

\* The second string is the first with the case of the letter at a place
\* changed.
CaseVariant(a, b, p) ==
    /\ b # a
    /\ b = [a EXCEPT ![p] = SwapCase(a[p])]

\* C26: parsing is case-insensitive for root and bass. When a string parses
\* to a chord and the same string with the letter case of its root letter or
\* of its bass letter changed is parsed too, the second parse gives a chord
\* with the same root and the same bass, and the same suffix, verbatim.
C26_CaseInsensitive ==
    \A i, j \in 1..Len(chord_log) :
        (/\ Len(texts) >= 2
         /\ chord_log[i].op = "from_string" /\ chord_log[i].on = 1
         /\ chord_log[i].returned # None
         /\ chord_log[j].op = "from_string" /\ chord_log[j].on = 2
         /\ \E p \in LetterPlaces(texts[1], chords[chord_log[i].returned]) :
               CaseVariant(texts[1], texts[2], p))
        => /\ chord_log[j].returned # None
           /\ chords[chord_log[j].returned] = chords[chord_log[i].returned]

\* ------------------------------------------------------------------ C27
\* The pitch class of a natural note, by its letter
Natural(letter) ==
    CASE letter = "C" -> 0 [] letter = "D" -> 2 [] letter = "E" -> 4
      [] letter = "F" -> 5 [] letter = "G" -> 7 [] letter = "A" -> 9
      [] letter = "B" -> 11

\* The pitch class a note text names: its letter, a semitone up for "#" and
\* a semitone down for "b"
Named(note) ==
    (Natural(note[1])
     + (IF Len(note) = 1 THEN 0 ELSE IF note[2] = "#" THEN 1 ELSE 11)) % 12

\* C27: acceptance and rejection. from_string returns, for every string of
\* the form root[#|b][quality][/bass[#|b]], the chord with the root the
\* string names, the quality verbatim and the bass the string names; for
\* every string whose first character is not one of A..G, from_string
\* returns None and so does transpose_chord.
C27_AcceptsAndRejects ==
    \A i \in 1..Len(chord_log) :
        LET call == chord_log[i]
            text == texts[call.on]
            m == Match(text)
        IN  /\ (call.op = "from_string" /\ m.matched)
               => /\ call.returned # None
                  /\ chords[call.returned] =
                        NewChord(Named(m.root), m.suffix,
                                 IF m.bass = <<>> THEN <<>>
                                 ELSE <<Named(m.bass)>>)
            /\ (/\ call.op \in {"from_string", "transpose_chord"}
                /\ (text = <<>> \/ text[1] \notin RootLetters))
               => call.returned = None


\* ------------------------------------------------------------------ C29
\* The calls of _transpose_chord_string made with an amount other than zero
LenientCalls ==
    {i \in 1..Len(chord_log) :
        /\ chord_log[i].op = "_transpose_chord_string"
        /\ chord_log[i].arg[1] # 0}

\* The tokens of what a call returned: none for None
TokensReturned(call) ==
    IF call.returned = None THEN <<>> ELSE Split(texts[call.returned])

\* C29: multi-chord strings degrade leniently. When a chord string of k
\* tokens separated by blanks is transposed by an amount other than zero,
\* the output has exactly k tokens, in the same order: the transposed
\* rendering of each token that parses, and each token that does not parse
\* unchanged. A string with a token is never answered with None.
C29_LenientDegrade ==
    \A i \in LenientCalls :
        LET call == chord_log[i]
            tokens == Split(texts[call.on])
        IN  /\ Len(TokensReturned(call)) = Len(tokens)
            /\ tokens # <<>> => call.returned # None
            /\ \A n \in 1..Len(tokens) :
                  TokensReturned(call)[n] =
                     IF FromStringOf(tokens[n]) = <<>> THEN tokens[n]
                     ELSE ToStringOf(TransposeOf(FromStringOf(tokens[n])[1],
                                                 call.arg[1]),
                                     call.arg[2])

\* A string of two tokens, of which the first parses and the second does
\* not, has been transposed by an amount other than zero.
C29_Witness ==
    \E i \in LenientCalls :
        /\ Len(Split(texts[chord_log[i].on])) = 2
        /\ FromStringOf(Split(texts[chord_log[i].on])[1]) # <<>>
        /\ FromStringOf(Split(texts[chord_log[i].on])[2]) = <<>>
        /\ chord_log[i].returned # None
        /\ texts[chord_log[i].returned] # texts[chord_log[i].on]


\* ------------------------------------------------------------------ C23
\* C23: transposition of a Song is a pure projection that does not
\* accumulate. No step changes the source sections of a Song; an assignment
\* to song.transpose leaves song.sections equal to the projection of the
\* source by the value assigned, whatever was assigned before; and a step
\* on one Song (an assignment, a change of its sections in place, the making
\* of another Song) changes neither the fields nor the sections of any
\* other Song.
C23_PureProjection ==
    [][/\ \A s \in 1..Len(views) :
             lists'[views'[s]._original_sections]
                = lists[views[s]._original_sections]
       /\ view_out'.op = "transpose"
          => ApplyTransposeOf(lists[views[view_out'.on]._original_sections],
                              view_out'.arg,
                              views[view_out'.on].prefer_sharp)
                = <<lists'[views'[view_out'.on].sections]>>
       /\ \A t \in 1..Len(views) :
             t # view_out'.on
             => /\ views'[t] = views[t]
                /\ lists'[views'[t].sections] = lists[views[t].sections]
      ]_vars


\* ------------------------------------------------------------------ C30
\* A check of the list of C30: what it is about, and whether it passes
Check(about, passes) == [about |-> about, passes |-> passes]

\* The checks on entry j of section i, in order
EntryChecks(i, j, entry) ==
    [f \in 1..Len(EntryFields) |->
        Check(<<"section", i, "entry", j, "missing", EntryFields[f]>>,
              entry.kind = "dict" /\ EntryFields[f] \in entry.keys)]

\* The checks on the entries of section i from entry j on, in order
RECURSIVE EntriesChecks(_, _, _)
EntriesChecks(i, j, items) ==
    IF j > Len(items) THEN <<>>
    ELSE EntryChecks(i, j - 1, items[j]) \o EntriesChecks(i, j + 1, items)

\* The checks on section i, in order: name, start_time, end_time, entries,
\* then its entries
SectionChecks(i, section) ==
    [f \in 1..Len(SectionFields) |->
        Check(<<"section", i, "missing", SectionFields[f]>>,
              section.kind = "dict" /\ SectionFields[f] \in section.keys)]
    \o <<Check(<<"section", i, "missing", "entries">>,
               section.kind = "dict" /\ section.entries.kind = "list")>>
    \o EntriesChecks(i, 1, section.entries.items)

\* The checks on the sections from section i on, in order
RECURSIVE SectionsChecks(_, _)
SectionsChecks(i, items) ==
    IF i > Len(items) THEN <<>>
    ELSE SectionChecks(i - 1, items[i]) \o SectionsChecks(i + 1, items)

\* The checks of C30 on a document, in the order of the claim
Checks(data) ==
    <<Check(<<"missing", "version">>, data.version),
      Check(<<"missing", "meta">>, data.meta.kind # "missing")>>
    \o [f \in 1..Len(MetaFields) |->
           Check(<<"missing", "meta", MetaFields[f]>>,
                 data.meta.kind = "dict" /\ MetaFields[f] \in data.meta.keys)]
    \o <<Check(<<"missing", "sections">>, data.sections.kind # "missing"),
         Check(<<"sections", "must be a list">>, data.sections.kind = "list")>>
    \o SectionsChecks(1, data.sections.items)

\* The document has everything C30 lists.
Acceptable(data) == \A n \in 1..Len(Checks(data)) : Checks(data)[n].passes

\* What the first check that fails is about
FirstFailed(data) ==
    Checks(data)[CHOOSE n \in 1..Len(Checks(data)) :
                    /\ ~Checks(data)[n].passes
                    /\ \A k \in 1..(n - 1) : Checks(data)[k].passes].about

\* C30: validate_mlc_data returns (True, None) exactly for the documents
\* with a version, a meta with title, bpm, key and duration, and a list of
\* sections that each have name, start_time, end_time and entries, whose
\* entries each have start_time and end_time; for every other document it
\* returns (False, message) with the message of the first check that fails,
\* and save_to_file and load_from_file raise ValueError.
C30_Validation ==
    /\ mlc_out.op = "validate_mlc_data"
       => /\ mlc_out.raised = ""
          /\ mlc_out.valid <=> Acceptable(mlc)
          /\ ~Acceptable(mlc) => mlc_out.error = FirstFailed(mlc)
    /\ mlc_out.op \in {"save_to_file", "load_from_file"}
       => IF Acceptable(mlc) THEN mlc_out.raised = "" /\ mlc_out.done
          ELSE mlc_out.raised = "ValueError"


\* ------------------------------------------------------------------ C40
\* Two section lists differ in the chords fields of their entries at most:
\* as many sections with the same name and times, in the same order, each
\* with as many entries with the same word and times, in the same order.
SameButChords(a, b) ==
    /\ Len(a) = Len(b)
    /\ \A i \in 1..Len(a) :
          /\ a[i].name = b[i].name
          /\ a[i].start_time = b[i].start_time
          /\ a[i].end_time = b[i].end_time
          /\ Len(a[i].entries) = Len(b[i].entries)
          /\ \A j \in 1..Len(a[i].entries) :
                /\ a[i].entries[j].word = b[i].entries[j].word
                /\ a[i].entries[j].start_time = b[i].entries[j].start_time
                /\ a[i].entries[j].end_time = b[i].entries[j].end_time

\* C40: every document validate_mlc_data accepts can be projected at every
\* transpose value. Song(document, transpose = n) and song.transpose = n do
\* not raise, for n = 0 and for other n, and the sections of the Song then
\* differ from the source in the chords fields at most.
C40_EveryDocumentProjects ==
    [][view_out'.op \in {"Song", "transpose"}
       => /\ view_out'.raised = ""
          /\ SameButChords(lists'[views'[view_out'.on].sections],
                           lists'[views'[view_out'.on]._original_sections])
      ]_vars


\* ------------------------------------------------------------------ C31
\* A list without the element at a place
Without(list, place) ==
    SubSeq(list, 1, place - 1) \o SubSeq(list, place + 1, Len(list))

\* Two lists hold the same songs, each as many times.
SameSongs(a, b) ==
    /\ Len(a) = Len(b)
    /\ \A x \in Range(a) \cup Range(b) :
          Cardinality({i \in 1..Len(a) : a[i] = x})
             = Cardinality({i \in 1..Len(b) : b[i] = x})

\* An index of the list of the edited Setlist
IndexOfSongs(index) == index >= 0 /\ index < Len(editing.songs)

\* C31: move_song(from, to) with both indexes in range keeps the songs, each
\* as many times as before, puts the moved song at index to and keeps the
\* other songs in their order; with an index out of range, a negative one
\* included, the list stays as it is.
C31_MoveSong ==
    [][edit'.op = "move_song"
       => IF IndexOfSongs(edit'.args[1]) /\ IndexOfSongs(edit'.args[2])
          THEN /\ SameSongs(editing'.songs, editing.songs)
               /\ editing'.songs[edit'.args[2] + 1]
                     = editing.songs[edit'.args[1] + 1]
               /\ Without(editing'.songs, edit'.args[2] + 1)
                     = Without(editing.songs, edit'.args[1] + 1)
          ELSE editing'.songs = editing.songs
      ]_vars

\* The first of three songs was moved to the end, past two others.
C31_Witness ==
    /\ edit.op = "move_song"
    /\ edit.args = <<0, 2>>
    /\ Len(editing.songs) = 3
    /\ editing.songs[1] # editing.songs[2]
    /\ editing.songs[3] # editing.songs[1]


\* ------------------------------------------------------------------ C33
\* A beat is due at the update of the step: the song has a beat duration,
\* 60 / bpm, and the position is that far from the last beat time or more.
BeatIsDue ==
    /\ sync.song.bpm > 0
    /\ sync_out'.arg - sync.last_beat_time >= 60 \div sync.song.bpm

\* What an update does about the beat: when one is due it records the
\* position as the last beat time, counts the beat modulo 4 and reports the
\* count plus one to the registered callback; when none is due it reports
\* nothing and records nothing. At most one beat is reported, between 1
\* and 4.
BeatRule ==
    /\ BeatIsDue
       => /\ sync'.last_beat_time = sync_out'.arg
          /\ sync'.current_beat = (sync.current_beat + 1) % 4
          /\ sync.on_beat
             => sync_out'.beat_events = <<sync'.current_beat + 1>>
    /\ ~BeatIsDue
       => /\ sync_out'.beat_events = <<>>
          /\ sync'.last_beat_time = sync.last_beat_time
          /\ sync'.current_beat = sync.current_beat
    /\ Len(sync_out'.beat_events) <= 1
    /\ \A n \in 1..Len(sync_out'.beat_events) :
          sync_out'.beat_events[n] \in 1..4

\* The beat the update of the step reports comes next in the cycle
\* 1, 2, 3, 4, 1 after the beat reported last, a beat duration later or more.
FollowsLastBeat ==
    /\ sync_out'.beat_events[1] = (sync_out'.beat_before[1].beat % 4) + 1
    /\ sync_out'.arg - sync_out'.beat_before[1].position
          >= 60 \div sync.song.bpm

\* C33 as stated: update follows the beat rule, and every two beats reported
\* one after the other follow the cycle, a beat duration or more apart.
C33_BeatDetection ==
    [][UpdateStep =>
        /\ BeatRule
        /\ (sync_out'.beat_events # <<>> /\ sync_out'.beat_before # <<>>)
           => FollowsLastBeat]_vars

\* C33, amended: update follows the beat rule, and every two beats reported
\* one after the other with no reset() between them follow the cycle, a beat
\* duration or more apart.
C33_BeatDetectionBetweenResets ==
    [][UpdateStep =>
        /\ BeatRule
        /\ (/\ sync_out'.beat_events # <<>>
            /\ sync_out'.beat_before # <<>>
            /\ ~sync_out'.beat_before[1].reset)
           => FollowsLastBeat]_vars

\* Beat 1 was reported after beat 4, with no reset between them.
C33_Witness ==
    /\ sync_out.op = "update"
    /\ sync_out.beat_events = <<1>>
    /\ sync_out.beat_before # <<>>
    /\ sync_out.beat_before[1].beat = 4
    /\ ~sync_out.beat_before[1].reset


\* ------------------------------------------------------------------ C37
\* The sections of the engine's song do not overlap: each lasts from its
\* start to a later end, ends where the next one starts, or before, and
\* holds entries that lie inside it.
SectionsInSequence ==
    /\ \A i \in 1..Len(sync.song.sections) :
          sync.song.sections[i].start_time < sync.song.sections[i].end_time
    /\ \A i, j \in 1..Len(sync.song.sections) :
          i < j => sync.song.sections[i].end_time
                      <= sync.song.sections[j].start_time
    /\ \A i \in 1..Len(sync.song.sections) :
          \A j \in 1..Len(sync.song.sections[i].entries) :
             /\ sync.song.sections[i].start_time
                   <= sync.song.sections[i].entries[j].start_time
             /\ sync.song.sections[i].entries[j].end_time
                   <= sync.song.sections[i].end_time

\* C37: entry and section agree. For a song whose sections do not overlap,
\* though one may end at the time the next one starts, the entry recorded by
\* update(t) carries the name of the section recorded by the same update.
C37_EntryInSection ==
    (/\ sync_out.op = "update"
     /\ SectionsInSequence
     /\ sync.current_entry # NoEntry)
    => sync.current_entry.section = sync.current_section.name

\* ------------------------------------------------------------------ C36
\* The songs played before logical index k: those at shuffle_order[0] to
\* shuffle_order[k - 1] of the list.
PlayedBefore(k) ==
    [i \in 1..k |-> setlist.songs[GetActualIndex(i - 1) + 1]]

\* C36: progress follows the playback order under shuffle.  With a shuffled
\* setlist loaded and current_index = k inside the list, the elapsed_time of
\* get_progress is the summed durations of the songs played before k, which
\* are songs[shuffle_order[0]] to songs[shuffle_order[k - 1]], plus k times
\* gap_seconds.
C36_ShuffledElapsed ==
    (/\ setlist.loaded
     /\ setlist.shuffle
     /\ current_index \in 0..Len(setlist.songs))
    => GetProgress.elapsed_time
          = SumDurations(PlayedBefore(current_index))
            + current_index * setlist.gap_seconds

\* ------------------------------------------------------------------ C35
\* C35: progress stays within bounds.  In every state with a setlist of one
\* song or more loaded, get_progress reports an elapsed_time of at most
\* total_time, remaining_songs from 0 to below total_songs and a
\* progress_percent from 0 to 100, also once the setlist has finished and
\* next_song has been called again.
C35_ProgressInBounds ==
    (setlist.loaded /\ setlist.songs # <<>>)
    => /\ GetProgress.elapsed_time <= GetProgress.total_time
       /\ 0 <= GetProgress.remaining_songs
       /\ GetProgress.remaining_songs < GetProgress.total_songs
       /\ 0 <= GetProgress.progress_percent
       /\ GetProgress.progress_percent <= 100

\* ------------------------------------------------------------------ C32
\* The live monitor tasks, counted
LiveBag ==
    orphans (+) (IF Live(auto_advance_task) THEN One(auto_advance_task)
                 ELSE EmptyBag)

\* The live monitors that have observed the threshold and not yet advanced
PastThreshold(tasks) ==
    {t \in BagToSet(tasks) : t.pc \in {"countdown_sleep", "gap_sleep"}}

PastThresholdCount(tasks) ==
    BagCardinality([t \in PastThreshold(tasks) |-> tasks[t]])

\* A monitor that was in its gap wait has ended, no other task has changed,
\* and at most the task made by play_current is new.
AdvancedOnceAndEnded ==
    \E t \in PastThreshold(LiveBag) :
       /\ t.pc = "gap_sleep"
       /\ t.elapsed = last'.elapsed
       /\ t.seen = last'.seen
       /\ LiveBag' \sqsubseteq ((LiveBag (-) One(t)) (+) One(CreateTask))

\* The step made by a monitor that polls
PollStep == last'.op = "poll" /\ LiveBag' # LiveBag

AdvanceStep == last'.op = "advance"

\* C32: the life of a monitor task.  (1) A monitor that advances was in its
\* gap wait, and after the advance it is no longer alive, so it advances once
\* and does not poll again.  (2) A monitor gets past the threshold only in a
\* poll made while is_playing is true in which duration > 0 and
\* position >= duration - 0.5 s, and every live monitor past the threshold
\* has seen such a poll.  (3) A monitor that polls while is_playing is false
\* ends in that poll, and neither current_index nor is_playing changes.
C32_MonitorStep ==
    /\ AdvanceStep => AdvancedOnceAndEnded
    /\ PastThresholdCount(LiveBag') > PastThresholdCount(LiveBag)
          => (last'.op = "poll" /\ is_playing)
    /\ \A t \in PastThreshold(LiveBag') :
          /\ t.seen.duration > 0
          /\ t.seen.position >= t.seen.duration - EndThreshold
    /\ (PollStep /\ ~is_playing)
          => /\ LiveCount' = LiveCount - 1
             /\ PastThresholdCount(LiveBag') = PastThresholdCount(LiveBag)
             /\ current_index' = current_index
             /\ is_playing' = is_playing

C32_MonitorLife == [][C32_MonitorStep]_vars

\* A monitor has advanced from the first song to the second and ended, and
\* the only live monitor is the one play_current made for the second song.
C32_Witness ==
    /\ last.op = "advance"
    /\ current_index = 1
    /\ is_playing
    /\ LiveBag = One(CreateTask)

\* A monitor has polled while is_playing was false and ended.
C32_WitnessStopped ==
    /\ last.op = "poll"
    /\ ~is_playing
    /\ auto_advance_task = EndedTask

\* ------------------------------------------------------------------ C34
\* play_current() has been called on the loaded setlist.
Started == last.op \in {"play_current", "poll", "countdown", "advance"}

\* A step of the playthrough leaves the song alone or is a monitor's advance
\* to the next logical index, after which playback goes on exactly when that
\* index is in the list.
PlaythroughStep ==
    Started
    => \/ current_index' = current_index /\ is_playing' = is_playing
       \/ /\ is_playing
          /\ last'.op = "advance"
          /\ current_index' = current_index + 1
          /\ is_playing' = (current_index' < Len(setlist.songs))

\* While a song plays, its monitor is the only live one.
OneMonitorPerSong ==
    (Started /\ is_playing)
    => LiveCount = 1 /\ Live(auto_advance_task)

\* Every song has been current and playback has ended.
Finished ==
    /\ Started
    /\ ~is_playing
    /\ current_index = Len(setlist.songs)

\* C34: the playthrough terminates.  With auto_advance on, loop off, no
\* command after play_current at index 0, every ready task resumed and a
\* position source that reports the end of each song at some poll, the
\* current index goes from 0 up by one at a time (each song is current once,
\* in playback order), exactly one monitor is alive while a song plays, and
\* is_playing = false is reached after the last song.
C34_Playthrough ==
    /\ [][PlaythroughStep]_vars
    /\ []OneMonitorPerSong
    /\ (last.op = "play_current") ~> Finished

\* A setlist of MaxSongs songs has been played to its end by the monitors.
C34_Witness ==
    /\ Finished
    /\ Len(setlist.songs) = MaxSongs
    /\ last.op = "advance"

\* ------------------------------------------------------------------ C38
\* C38: position tracking follows playback.  While the audio engine is in the
\* playing state a tracking thread is alive to call the position callbacks,
\* whatever the interleaving of play, pause and stop with the thread, a pause
\* or stop followed at once by play included.
C38_TrackingFollowsPlayback ==
    audio.is_playing => IsAlive

\* ------------------------------------------------------------------ C39
\* The connections whose send_text raised in some broadcast
Unhealthy ==
    UNION {Range(casts[k].disconnected) : k \in 1..Len(casts)}

\* The number of times call `cast` had a send_text to c return
TimesReceived(cast, c) ==
    Cardinality({i \in 1..Len(cast.received) : cast.received[i] = c})

\* C39: broadcast under concurrent changes of the connection list.  Once a
\* broadcast has returned, every connection that was registered when it
\* began, was never unregistered and never had a send_text raise has received
\* its message exactly once, whatever disconnect(), connect() and other
\* broadcasts ran between two of its sends.
C39_DeliveredOnce ==
    \A k \in 1..Len(casts) :
       casts[k].pc = "done"
       => \A c \in casts[k].at_start \ (gone \cup Unhealthy) :
             TimesReceived(casts[k], c) = 1

====
